---- MODULE Spec2Model ----
(***************************************************************************)
(* State-machine model of the LatticeKeyring adapter (eth-lattice-keyring). *)
(*                                                                         *)
(* The repository holds several historical versions of the one class.      *)
(* Two of them are modelled:                                                *)
(*   version "E"  src/unnamed/part_000 lines 380-1206 (accountOpts,         *)
(*                forceReconnect, _syncCurrentWalletUID)   -- Spec          *)
(*   version "D"  src/unnamed/part_001 lines 206-782 (unlock(updateData),   *)
(*                _connect(updateData))                    -- SpecD         *)
(*                                                                         *)
(* `this` is the keyring object.  `ops` holds the asynchronous public       *)
(* operations in flight: an operation is suspended only at an I/O boundary  *)
(* (credential handshake, connect, getAddresses, sign); the promise chain   *)
(* between two boundaries runs as one step.  The signer session (SDK) and   *)
(* the device are the environment: `deviceWallet` is the wallet identity    *)
(* active on the device, and every callback draws its outcome from the      *)
(* answers the signer can give.                                             *)
(***************************************************************************)
EXTENDS Integers, Sequences, FiniteSets, TLC

VARIABLES this, ops, deviceWallet, last

vars == <<this, ops, deviceWallet, last>>

----------------------------------------------------------------------------
(* Program constants *)

NULL == "null"

PER_PAGE == 5
CLOSE_CODE == -1000
SDK_TIMEOUT == 120000
CONNECT_TIMEOUT == 20000

(* 0x80000000 does not fit TLC's integers: a path index is the pair        *)
(* <<h, n>> standing for h * 0x80000000 + n.                               *)
HARDENED_OFFSET == <<1, 0>>
PlainIndex(n) == <<0, n>>
AddIndex(idx, n) == <<idx[1], idx[2] + n>>

(* An HD path template is the list hdPath.split('/').slice(1).             *)
STANDARD_HD_PATH == <<"44'", "60'", "0'", "0", "x">>
LEDGER_LIVE_PATH == <<"44'", "60'", "x'", "0", "0">>
NO_X_PATH == <<"44'", "60'", "0'", "0">>

----------------------------------------------------------------------------
(* Bounds of the model *)

MaxAccounts == 3      \* the device answers addAccounts only while the cache stays this short
MaxPage == 1          \* getNextPage is not called past this page

Slots == {1}
Wallets == {"w1", "w2"}
Templates == {STANDARD_HD_PATH, NO_X_PATH}
\* values given to setAccountToUnlock, and the derivation indices addAccounts may reach
StartIndices == {0, 1}
\* values given to addAccounts
Counts == {CLOSE_CODE, -1, 0, 1, 2}

----------------------------------------------------------------------------
(* Segments of a path template *)

\* _idx[_idx.length - 1] === "'"
isHardened(seg) == seg \in {"44'", "60'", "0'", "x'"}
\* _idx.indexOf('x') > -1
hasX(seg) == seg \in {"x", "x'"}
\* Number(_idx) or Number(_idx.slice(0, _idx.length - 1))
segNumber(seg) ==
    CASE seg \in {"44'"} -> 44
      [] seg \in {"60'"} -> 60
      [] seg \in {"0'", "0"} -> 0

RECURSIVE pathIndices(_, _)
pathIndices(path, insertIdx) ==
    IF path = <<>> THEN <<>>
    ELSE LET _idx == Head(path)
             base == IF isHardened(_idx) THEN HARDENED_OFFSET ELSE PlainIndex(0)
             idx == IF hasX(_idx) THEN AddIndex(base, insertIdx)
                    ELSE AddIndex(base, segNumber(_idx))
         IN  <<idx>> \o pathIndices(Tail(path), insertIdx)

usedX(path) == \E k \in 1..Len(path) : hasX(path[k])

\* The indices before the length check.
rawHDPathIndices(hdPath, insertIdx) ==
    IF usedX(hdPath) THEN pathIndices(hdPath, insertIdx)
    ELSE Append(pathIndices(hdPath, insertIdx), PlainIndex(insertIdx))

\* Mutant: the length of the result is not tested.
_getHDPathIndicesThrows_never(hdPath, insertIdx) == FALSE

\* _getHDPathIndices throws when there are more than 5 indices.
_getHDPathIndicesThrows(hdPath, insertIdx) ==
    Len(rawHDPathIndices(hdPath, insertIdx)) > 5

_getHDPathIndices(hdPath, insertIdx) == rawHDPathIndices(hdPath, insertIdx)

\* Mutant: the last segment is looked at as well.
_hdPathHasInternalVarIdx_anySegment(hdPath) ==
    \E k \in 1..Len(hdPath) : hasX(hdPath[k])

_hdPathHasInternalVarIdx(hdPath) ==
    \E k \in 1..(Len(hdPath) - 1) : hasX(hdPath[k])

----------------------------------------------------------------------------
(* Addresses.  The device derives one address per (wallet, path) and       *)
(* returns it in checksum (mixed) case; toLowerCase gives the lower-case   *)
(* form of the same address.                                               *)

DeriveAddress(w, path) == [w |-> w, p |-> path, lc |-> FALSE]
toLowerCase(a) == [a EXCEPT !.lc = TRUE]
AbsentAddress == [w |-> "w0", p |-> <<>>, lc |-> TRUE]

\* getAddresses({startPath, n}): n addresses, the last index of startPath counting up.
DeviceAddresses(w, startPath, n) ==
    [k \in 1..n |->
        DeriveAddress(w, [startPath EXCEPT ![Len(startPath)] = AddIndex(@, k - 1)])]

----------------------------------------------------------------------------
(* The keyring object *)

NoCreds == [deviceID |-> NULL, password |-> NULL, endpoint |-> NULL]
GoodCreds == [deviceID |-> "dev1", password |-> "pw1", endpoint |-> NULL]

\* Mutant: the reset leaves the credentials in place.
_resetDefaults_keepsCreds(K) ==
    [K EXCEPT !.accounts = <<>>,
              !.accountIndices = <<>>,
              !.accountOpts = <<>>,
              !.walletUID = NULL,
              !.sdkSession = <<>>,
              !.page = 0,
              !.unlockedAccount = 0,
              !.network = NULL,
              !.hdPath = STANDARD_HD_PATH]

\* _resetDefaults of version E; appName and forceReconnect are not touched.
_resetDefaults(K) ==
    [K EXCEPT !.accounts = <<>>,
              !.accountIndices = <<>>,
              !.accountOpts = <<>>,
              !.creds = NoCreds,
              !.walletUID = NULL,
              !.sdkSession = <<>>,
              !.page = 0,
              !.unlockedAccount = 0,
              !.network = NULL,
              !.hdPath = STANDARD_HD_PATH]

\* _resetDefaults of version D, which has no accountOpts.
_resetDefaultsD(K) ==
    [K EXCEPT !.accounts = <<>>,
              !.accountIndices = <<>>,
              !.creds = NoCreds,
              !.walletUID = NULL,
              !.sdkSession = <<>>,
              !.page = 0,
              !.unlockedAccount = 0,
              !.network = NULL,
              !.hdPath = STANDARD_HD_PATH]

\* The object before the constructor runs _resetDefaults: appName and
\* forceReconnect are undefined (falsy).
BlankKeyring ==
    [accounts |-> <<>>, accountIndices |-> <<>>, accountOpts |-> <<>>,
     creds |-> NoCreds, walletUID |-> NULL, sdkSession |-> <<>>,
     page |-> 0, unlockedAccount |-> 0, network |-> NULL,
     hdPath |-> STANDARD_HD_PATH, appName |-> NULL, forceReconnect |-> FALSE]

\* An absent option is <<>>, a present one <<value>>; string options are
\* NULL when absent (both falsy in `if (opts.x)`).
NoOpts ==
    [hdPath |-> <<>>, creds |-> <<>>, accounts |-> <<>>, accountIndices |-> <<>>,
     accountOpts |-> <<>>, walletUID |-> NULL, name |-> NULL, appName |-> NULL,
     network |-> NULL, page |-> 0]

Opt(field, dflt) == IF field # <<>> THEN field[1] ELSE dflt

deserialize(K, opts) ==
    [K EXCEPT !.hdPath = Opt(opts.hdPath, @),
              !.creds = Opt(opts.creds, @),
              !.accounts = Opt(opts.accounts, @),
              !.accountIndices = Opt(opts.accountIndices, @),
              !.accountOpts = Opt(opts.accountOpts, @),
              !.walletUID = IF opts.walletUID # NULL THEN opts.walletUID ELSE @,
              !.appName = IF opts.appName # NULL THEN opts.appName
                          ELSE IF opts.name # NULL THEN opts.name ELSE @,
              !.network = IF opts.network # NULL THEN opts.network ELSE @,
              !.page = IF opts.page # 0 THEN opts.page ELSE @]

\* Mutant: the page is left out of the serialized state.
serialize_noPage(K) ==
    [NoOpts EXCEPT !.creds = <<K.creds>>,
                   !.accounts = <<K.accounts>>,
                   !.accountIndices = <<K.accountIndices>>,
                   !.accountOpts = <<K.accountOpts>>,
                   !.walletUID = K.walletUID,
                   !.appName = K.appName,
                   !.network = K.network,
                   !.hdPath = <<K.hdPath>>]

\* this.name is never assigned: `name` is undefined in what is serialized.
serialize(K) ==
    [NoOpts EXCEPT !.creds = <<K.creds>>,
                   !.accounts = <<K.accounts>>,
                   !.accountIndices = <<K.accountIndices>>,
                   !.accountOpts = <<K.accountOpts>>,
                   !.walletUID = K.walletUID,
                   !.appName = K.appName,
                   !.network = K.network,
                   !.page = K.page,
                   !.hdPath = <<K.hdPath>>]

\* Version D reads no accountOpts.
deserializeD(K, opts) ==
    [K EXCEPT !.hdPath = Opt(opts.hdPath, @),
              !.creds = Opt(opts.creds, @),
              !.accounts = Opt(opts.accounts, @),
              !.accountIndices = Opt(opts.accountIndices, @),
              !.walletUID = IF opts.walletUID # NULL THEN opts.walletUID ELSE @,
              !.appName = IF opts.appName # NULL THEN opts.appName
                          ELSE IF opts.name # NULL THEN opts.name ELSE @,
              !.network = IF opts.network # NULL THEN opts.network ELSE @,
              !.page = IF opts.page # 0 THEN opts.page ELSE @]

_hasCreds(K) ==
    K.creds.deviceID # NULL /\ K.creds.password # NULL /\ K.appName # NULL

_getCurrentWalletUID(K) == K.walletUID

\* Version E: a wallet UID and a session.
isUnlocked(K) == _getCurrentWalletUID(K) # NULL /\ K.sdkSession # <<>>

\* Version D: this.sdkSession && this.walletUID
_hasSession(K) == K.sdkSession # <<>> /\ K.walletUID # NULL

\* Buffer.from(string): the bytes of the strings the model uses, one
\* character per byte.
Bytes(str) ==
    CASE str = "a" -> <<"a">>
      [] str = "ab" -> <<"a", "b">>
      [] str = "ba" -> <<"b", "a">>
      [] str = "pw1" -> <<"p", "w", "1">>
      [] str = "dev1" -> <<"d", "e", "v", "1">>
      [] str = "pw2" -> <<"p", "w", "2">>
      [] str = "dev2" -> <<"d", "e", "v", "2">>
      [] str = "MetaMask" -> <<"M", "e", "t", "a", "M", "a", "s", "k">>

\* crypto.createHash('sha256').update(buf).digest(): the digest is taken
\* to be free of collisions, so it is named by the bytes it was made of.
sha256(buf) == [sha256 |-> buf]

\* Mutant: the application name is left out of the key.
_genSessionKey_noAppName(K) ==
    sha256(Bytes(K.creds.password) \o Bytes(K.creds.deviceID))

\* Called only where _hasCreds holds (the throw is in the callers' guard).
_genSessionKey(K) ==
    sha256(Bytes(K.creds.password) \o Bytes(K.creds.deviceID) \o Bytes(K.appName))

\* new SDK.Client(setupData)
NewSession(K) ==
    [timeout |-> SDK_TIMEOUT,
     baseUrl |-> IF K.creds.endpoint # NULL THEN K.creds.endpoint
                 ELSE "https://signing.gridpl.us",
     privKey |-> _genSessionKey(K),
     active |-> NULL]

\* sdkSession.getActiveWallet(): the wallet the signer session last saw.
getActiveWallet(K) == K.sdkSession[1].active

\* The signer session learns the device's wallet when a request succeeds.
SdkSees(K, w) ==
    IF K.sdkSession = <<>> THEN K ELSE [K EXCEPT !.sdkSession[1].active = w]

\* _syncCurrentWalletUID: the keyring after the call; the value returned
\* is syncedUID.
syncedUID(K) ==
    IF K.sdkSession = <<>> THEN NULL ELSE getActiveWallet(K)

\* Mutant: the sync does what its comment says ("reset accounts and update
\* the known UID") and empties the cache when the identity changed.
_syncCurrentWalletUID_resetsAccounts(K) ==
    IF syncedUID(K) = NULL THEN K
    ELSE IF syncedUID(K) # K.walletUID
         THEN [K EXCEPT !.walletUID = syncedUID(K), !.accounts = <<>>,
                        !.accountIndices = <<>>, !.accountOpts = <<>>]
    ELSE K

\* Mutant: a wallet UID once known is never replaced.
_syncCurrentWalletUID_keepsKnown(K) ==
    IF syncedUID(K) = NULL THEN K
    ELSE IF K.walletUID = NULL THEN [K EXCEPT !.walletUID = syncedUID(K)]
    ELSE K

_syncCurrentWalletUID(K) ==
    IF syncedUID(K) = NULL THEN K
    ELSE IF syncedUID(K) # K.walletUID THEN [K EXCEPT !.walletUID = syncedUID(K)]
    ELSE K

----------------------------------------------------------------------------
(* Operations in flight.  pc is the I/O boundary an operation waits at:    *)
(* "creds" (companion tab open), "connect", "addr" (getAddresses), "sign"; *)
(* "done" once its promise settled (res is "ok" or the error), "hung" when *)
(* its promise can no longer settle.                                       *)

\* A field that an object does not have (undefined, or deleted).
ABSENT == "absent"

\* tx as the host passes it to signTransaction: its declared type (0 for a
\* legacy transaction) and its price fields.
LegacyTx ==
    [type |-> 0, gasPrice |-> "gasPrice", maxFeePerGas |-> ABSENT,
     maxPriorityFeePerGas |-> ABSENT]
AccessListTx == [LegacyTx EXCEPT !.type = 1]
FeeMarketTx ==
    [type |-> 2, gasPrice |-> ABSENT, maxFeePerGas |-> "maxFeePerGas",
     maxPriorityFeePerGas |-> "maxPriorityFeePerGas"]

\* sdkSession.fwVersion, [fix, minor, major]: the first firmware with typed
\* transactions is 0.11.0.
TypedTxFirmware == <<0, 11, 0>>

\* txData before it is built
NoTxData ==
    [type |-> ABSENT, gasPrice |-> ABSENT, maxFeePerGas |-> ABSENT,
     maxPriorityFeePerGas |-> ABSENT, accessList |-> ABSENT,
     revertToLegacy |-> FALSE]

\* What a page request finds when it is called: the cached state that a
\* failure is said to leave as it was.
Snapshot(K) ==
    [accounts |-> K.accounts, accountIndices |-> K.accountIndices,
     accountOpts |-> K.accountOpts, walletUID |-> K.walletUID,
     creds |-> K.creds, page |-> K.page, appName |-> K.appName]

\* The watch of one credential handshake: the browser the tab was opened
\* in, what the tab shows, whether the setInterval poll runs and whether
\* receiveMessage is registered on the window.
NoWatch == [browser |-> "none", tab |-> "none", poll |-> FALSE, listener |-> FALSE]

IdleOp ==
    [kind |-> "none", pc |-> "idle", res |-> "none", sent |-> {},
     before |-> Snapshot(BlankKeyring),
     tx |-> LegacyTx, fwVersion |-> TypedTxFirmware, req |-> NoTxData,
     count |-> 0, start |-> 0, address |-> AbsentAddress, upd |-> TRUE,
     stage |-> "unlock", n |-> 0, i |-> 0, acc |-> <<>>, recurse |-> FALSE,
     reqPath |-> <<>>, reqN |-> 0, out |-> <<>>, watch |-> NoWatch]

NewOp(kind) == [IdleOp EXCEPT !.kind = kind]

\* a page request, which notes what it found
NewPageOp == [NewOp("getPage") EXCEPT !.before = Snapshot(this)]

Settled(o) ==
    [o EXCEPT !.n = 0, !.i = 0, !.acc = <<>>, !.recurse = FALSE,
              !.reqPath = <<>>, !.reqN = 0, !.stage = "unlock"]

Cfg(K, o) == [k |-> K, o |-> o]
\* the promise rejects with error e
Fail(K, o, e) == Cfg(K, [Settled(o) EXCEPT !.pc = "done", !.res = e])
\* the promise resolves with value out
Ok(K, o, out) == Cfg(K, [Settled(o) EXCEPT !.pc = "done", !.res = "ok", !.out = out])
\* an exception escapes a callback, or nothing is left to settle the promise
Hang(K, o, e) == Cfg(K, [Settled(o) EXCEPT !.pc = "hung", !.res = e])

----------------------------------------------------------------------------
(* Version E: addAccounts, paging and the address fetch *)

\* addAccounts' loop over this.accounts for one fetched address: does the
\* test read accountOpts[j] of a missing entry (a TypeError)?
dedupThrows(K, addr) ==
    \E j \in 1..Len(K.accounts) :
        K.accounts[j] = addr /\ j > Len(K.accountOpts)

\* Mutant: the flag is assigned, not latched, on every turn of the loop, so
\* only the last cached record decides.
alreadySaved_lastOnly(K, addr, walletUID) ==
    /\ Len(K.accounts) > 0
    /\ K.accounts[Len(K.accounts)] = addr
    /\ K.accountOpts[Len(K.accounts)].walletUID = walletUID
    /\ K.accountOpts[Len(K.accounts)].hdPath = K.hdPath

alreadySaved(K, addr, walletUID) ==
    \E j \in 1..Len(K.accounts) :
        /\ K.accounts[j] = addr
        /\ j <= Len(K.accountOpts)
        /\ K.accountOpts[j].walletUID = walletUID
        /\ K.accountOpts[j].hdPath = K.hdPath

\* addrs.forEach((addr, i) => ...) from position i (1-based) on: the
\* keyring after the loop, and whether the loop threw.
\* Mutant: every fetched address is pushed, the alreadySaved test is gone.
RECURSIVE pushAddrs_alwaysPush(_, _, _, _)
pushAddrs_alwaysPush(K, addrs, i, walletUID) ==
    IF i > Len(addrs) THEN [k |-> K, threw |-> FALSE]
    ELSE pushAddrs_alwaysPush(
            [K EXCEPT !.accounts = Append(@, addrs[i]),
                      !.accountIndices = Append(@, K.unlockedAccount + (i - 1)),
                      !.accountOpts = Append(@, [walletUID |-> walletUID,
                                                 hdPath |-> K.hdPath])],
            addrs, i + 1, walletUID)

RECURSIVE pushAddrs(_, _, _, _)
pushAddrs(K, addrs, i, walletUID) ==
    IF i > Len(addrs) THEN [k |-> K, threw |-> FALSE]
    ELSE IF dedupThrows(K, addrs[i]) THEN [k |-> K, threw |-> TRUE]
    ELSE IF alreadySaved(K, addrs[i], walletUID)
         THEN pushAddrs(K, addrs, i + 1, walletUID)
    ELSE pushAddrs(
            [K EXCEPT !.accounts = Append(@, addrs[i]),
                      !.accountIndices = Append(@, K.unlockedAccount + (i - 1)),
                      !.accountOpts = Append(@, [walletUID |-> walletUID,
                                                 hdPath |-> K.hdPath])],
            addrs, i + 1, walletUID)

\* The .then that follows _fetchAddresses in addAccounts.
addAccountsThen(K, o, addrs) ==
    LET r == pushAddrs(K, addrs, 1, _getCurrentWalletUID(K))
    IN  IF r.threw THEN Fail(r.k, o, "TypeError")
        ELSE Ok(r.k, o, r.k.accounts)

\* Mutant: the index of a page entry is its position in the page.
_getPageThen_indexFromZero(K, o, addrs) ==
    Ok(K, o, [j \in 1..Len(addrs) |->
                 [address |-> addrs[j], balance |-> NULL, index |-> j - 1]])

\* The .then that follows _fetchAddresses in _getPage.
_getPageThen(K, o, addrs) ==
    Ok(K, o, [j \in 1..Len(addrs) |->
                 [address |-> addrs[j], balance |-> NULL, index |-> o.start + (j - 1)]])

fetchThen(K, o, addrs) ==
    IF o.kind = "addAccounts" THEN addAccountsThen(K, o, addrs)
    ELSE _getPageThen(K, o, addrs)

\* __fetchAddresses up to the getAddresses request.  inCallback: the call
\* is the recursion made from the previous request's callback, where a
\* throw is not caught by any promise.
\* Mutant: one batched request, whatever the template.
__fetchAddresses_neverRecurses(K, o, n, i, recursedAddrs, inCallback) ==
    IF n = 0 THEN fetchThen(K, o, recursedAddrs)
    ELSE IF _getHDPathIndicesThrows(K.hdPath, i)
         THEN IF inCallback THEN Hang(K, o, "InvalidPathError")
              ELSE Fail(K, o, "InvalidPathError")
    ELSE Cfg(K, [o EXCEPT !.pc = "addr",
                          !.n = n, !.i = i, !.acc = recursedAddrs,
                          !.recurse = FALSE,
                          !.reqPath = _getHDPathIndices(K.hdPath, i),
                          !.reqN = n,
                          !.sent = @ \cup {"getAddresses"}])

__fetchAddresses(K, o, n, i, recursedAddrs, inCallback) ==
    IF n = 0 THEN fetchThen(K, o, recursedAddrs)
    ELSE IF _getHDPathIndicesThrows(K.hdPath, i)
         THEN IF inCallback THEN Hang(K, o, "InvalidPathError")
              ELSE Fail(K, o, "InvalidPathError")
    ELSE LET shouldRecurse == _hdPathHasInternalVarIdx(K.hdPath)
         IN  Cfg(K, [o EXCEPT !.pc = "addr",
                              !.n = n, !.i = i, !.acc = recursedAddrs,
                              !.recurse = shouldRecurse,
                              !.reqPath = _getHDPathIndices(K.hdPath, i),
                              !.reqN = IF shouldRecurse THEN 1 ELSE n,
                              !.sent = @ \cup {"getAddresses"}])

_fetchAddresses(K, o, n, i) ==
    IF ~isUnlocked(K) THEN Fail(K, o, "NoConnectionError")
    ELSE __fetchAddresses(K, o, n, i, <<>>, FALSE)

\* The callback of sdkSession.getAddresses.  resp is "err", or the list
\* of addresses the device returned.
\* Mutant: the callback goes on without looking at the session.
getAddressesCb_noSync(K, o, err, addrs) ==
    IF err THEN Fail(K, o, "DeviceError")
    ELSE IF Len(addrs) < 1 THEN Fail(K, o, "NoAddressesReturnedError")
    ELSE IF o.recurse
         THEN __fetchAddresses(K, o, o.n - 1, o.i + 1, o.acc \o addrs, TRUE)
    ELSE fetchThen(K, o, addrs)

\* Mutant: an empty answer ends the fetch with what was gathered so far.
getAddressesCb_keepsGathered(K, o, err, addrs) ==
    IF err THEN Fail(K, o, "DeviceError")
    ELSE IF syncedUID(K) = NULL THEN Fail(K, o, "NoActiveWalletError")
    ELSE LET K1 == _syncCurrentWalletUID(K)
         IN  IF Len(addrs) < 1 THEN fetchThen(K1, o, o.acc)
             ELSE IF o.recurse
                  THEN __fetchAddresses(K1, o, o.n - 1, o.i + 1, o.acc \o addrs, TRUE)
             ELSE fetchThen(K1, o, addrs)

\* Mutant: the per-index fetch asks for the next index and forgets the
\* address it was just given.
getAddressesCb_dropsResponse(K, o, err, addrs) ==
    IF err THEN Fail(K, o, "DeviceError")
    ELSE IF syncedUID(K) = NULL THEN Fail(K, o, "NoActiveWalletError")
    ELSE LET K1 == _syncCurrentWalletUID(K)
         IN  IF Len(addrs) < 1 THEN Fail(K1, o, "NoAddressesReturnedError")
             ELSE IF o.recurse
                  THEN __fetchAddresses(K1, o, o.n - 1, o.i + 1, o.acc, TRUE)
             ELSE fetchThen(K1, o, addrs)

getAddressesCb(K, o, err, addrs) ==
    IF err THEN Fail(K, o, "DeviceError")
    ELSE IF syncedUID(K) = NULL THEN Fail(K, o, "NoActiveWalletError")
    ELSE LET K1 == _syncCurrentWalletUID(K)
         IN  IF Len(addrs) < 1 THEN Fail(K1, o, "NoAddressesReturnedError")
             ELSE IF o.recurse
                  THEN __fetchAddresses(K1, o, o.n - 1, o.i + 1, o.acc \o addrs, TRUE)
             ELSE fetchThen(K1, o, addrs)

----------------------------------------------------------------------------
(* Version E: signing *)

\* Mutant: the addresses are compared as they are written.
lastMatch_exact(K, address) ==
    LET hits == {j \in 1..Len(K.accounts) : address = K.accounts[j]}
    IN  IF hits = {} THEN 0 ELSE CHOOSE j \in hits : \A h \in hits : h <= j

\* addrs.forEach(...) keeps the last index whose address matches, 0 if none.
lastMatch(K, address) ==
    LET hits == {j \in 1..Len(K.accounts) :
                    toLowerCase(address) = toLowerCase(K.accounts[j])}
    IN  IF hits = {} THEN 0 ELSE CHOOSE j \in hits : \A h \in hits : h <= j

\* this.accountIndices[accountIdx]; a missing entry is undefined, which the
\* default parameter of _getHDPathIndices turns into 0.
signerIndex(K, accountIdx) ==
    IF accountIdx <= Len(K.accountIndices) THEN K.accountIndices[accountIdx] ELSE 0

\* case 2 of the switch on tx._type throws when a fee field is null or
\* undefined.
feeFieldsMissing(tx) ==
    /\ tx.type = 2
    /\ \/ tx.maxPriorityFeePerGas \in {NULL, ABSENT}
       \/ tx.maxFeePerGas \in {NULL, ABSENT}

\* The switch on tx._type: the type and the price fields of txData.
txDataOf(tx) ==
    CASE tx.type = 2 ->
            [NoTxData EXCEPT !.maxPriorityFeePerGas = tx.maxPriorityFeePerGas,
                             !.maxFeePerGas = tx.maxFeePerGas,
                             !.accessList = "accessList", !.type = "2"]
      [] tx.type = 1 ->
            [NoTxData EXCEPT !.accessList = "accessList",
                             !.gasPrice = tx.gasPrice, !.type = "1"]
      [] OTHER ->
            [NoTxData EXCEPT !.gasPrice = tx.gasPrice, !.type = NULL]

\* Mutant: only the minor version is compared.
forceLegacyTx_minorOnly(fwVersion) == fwVersion[2] < 11

\* fwVersion[2] < 1 && fwVersion[1] < 11, the indices counted from 0
forceLegacyTx(fwVersion) == fwVersion[3] < 1 /\ fwVersion[2] < 11

\* The rewrite of txData for a firmware without typed transactions.
revertToLegacy(txData, fwVersion) ==
    IF forceLegacyTx(fwVersion) /\ txData.type = "2"
    THEN [txData EXCEPT !.gasPrice = txData.maxFeePerGas, !.revertToLegacy = TRUE,
                        !.type = ABSENT, !.maxFeePerGas = ABSENT,
                        !.maxPriorityFeePerGas = ABSENT, !.accessList = ABSENT]
    ELSE IF forceLegacyTx(fwVersion) /\ txData.type = "1"
    THEN [txData EXCEPT !.revertToLegacy = TRUE, !.type = ABSENT,
                        !.accessList = ABSENT]
    ELSE txData

\* Mutant: the fee fields of a type 2 transaction are not tested.
signRequest_noFeeCheck(K, o) ==
    LET accountIdx == lastMatch(K, o.address)
    IN  IF accountIdx = 0 THEN Fail(K, o, "SignerNotPresentError")
        ELSE IF accountIdx > Len(K.accountOpts) THEN Fail(K, o, "TypeError")
        ELSE IF _getHDPathIndicesThrows(K.accountOpts[accountIdx].hdPath,
                                        signerIndex(K, accountIdx))
             THEN Fail(K, o, "InvalidPathError")
        ELSE Cfg(K, [o EXCEPT !.pc = "sign",
                              !.reqPath = _getHDPathIndices(
                                              K.accountOpts[accountIdx].hdPath,
                                              signerIndex(K, accountIdx)),
                              !.req = IF o.kind = "signTransaction"
                                      THEN revertToLegacy(txDataOf(o.tx), o.fwVersion)
                                      ELSE @,
                              !.sent = @ \cup {"sign"}])

\* After _findSignerIdx resolved: build the request and call sdkSession.sign.
\* (What is thrown while signTransaction builds txData reaches the caller as
\* 'Failed to build transaction.'; the error is named here after its cause.)
\* Mutant: the signer path is resolved from the adapter's current template
\* and start index.
signRequest_currentPath(K, o) ==
    LET accountIdx == lastMatch(K, o.address)
    IN  IF accountIdx = 0 THEN Fail(K, o, "SignerNotPresentError")
        ELSE IF _getHDPathIndicesThrows(K.hdPath, K.unlockedAccount)
             THEN Fail(K, o, "InvalidPathError")
        ELSE Cfg(K, [o EXCEPT !.pc = "sign",
                              !.reqPath = _getHDPathIndices(K.hdPath, K.unlockedAccount),
                              !.req = IF o.kind = "signTransaction"
                                      THEN revertToLegacy(txDataOf(o.tx), o.fwVersion)
                                      ELSE @,
                              !.sent = @ \cup {"sign"}])

signRequest(K, o) ==
    LET accountIdx == lastMatch(K, o.address)
    IN  IF accountIdx = 0 THEN Fail(K, o, "SignerNotPresentError")
        ELSE IF accountIdx > Len(K.accountOpts) THEN Fail(K, o, "TypeError")
        ELSE IF _getHDPathIndicesThrows(K.accountOpts[accountIdx].hdPath,
                                        signerIndex(K, accountIdx))
             THEN Fail(K, o, "InvalidPathError")
        ELSE IF o.kind = "signTransaction" /\ feeFieldsMissing(o.tx)
             THEN Fail(K, o, "MissingFeeFieldsError")
        ELSE Cfg(K, [o EXCEPT !.pc = "sign",
                              !.reqPath = _getHDPathIndices(
                                              K.accountOpts[accountIdx].hdPath,
                                              signerIndex(K, accountIdx)),
                              !.req = IF o.kind = "signTransaction"
                                      THEN revertToLegacy(txDataOf(o.tx), o.fwVersion)
                                      ELSE @,
                              !.sent = @ \cup {"sign"}])

\* What the device answered to sign: an error, or a result that may lack
\* the transaction payload, the signature or one of its components.
SignAnswer(resp) ==
    [err |-> resp = "err", tx |-> resp # "noTx", sig |-> resp # "noSig",
     r |-> resp \notin {"noSig", "noR"}, s |-> resp \notin {"noSig", "noS"},
     v |-> resp \notin {"noSig", "noV"}]

\* txToReturn: tx.toJSON() with the type (and, after a rewrite, the gas
\* price) set from the signed result.
txToReturn(tx, txData) ==
    [type |-> IF txData.revertToLegacy THEN "0" ELSE txData.type,
     gasPrice |-> IF txData.revertToLegacy THEN txData.gasPrice ELSE tx.gasPrice,
     maxFeePerGas |-> tx.maxFeePerGas,
     maxPriorityFeePerGas |-> tx.maxPriorityFeePerGas]

\* Mutant: the callback does not test what _syncCurrentWalletUID returns.
_signTxDataCb_skipsSync(K, o, resp) ==
    LET a == SignAnswer(resp)
        K1 == _syncCurrentWalletUID(K)
    IN  IF a.err THEN Fail(K, o, "DeviceError")
        ELSE IF ~a.tx THEN Fail(K1, o, "NoTxPayloadError")
        ELSE IF ~a.sig \/ ~a.v \/ ~a.r \/ ~a.s
             THEN Fail(K1, o, "MissingSignatureError")
        ELSE Ok(K1, o, <<txToReturn(o.tx, o.req)>>)

\* The callback of sdkSession.sign in _signTxData, and the .then of
\* signTransaction that checks the signature.
_signTxDataCb(K, o, resp) ==
    LET a == SignAnswer(resp)
        K1 == _syncCurrentWalletUID(K)
    IN  IF a.err THEN Fail(K, o, "DeviceError")
        ELSE IF syncedUID(K) = NULL THEN Fail(K, o, "StaleWalletError")
        ELSE IF ~a.tx THEN Fail(K1, o, "NoTxPayloadError")
        ELSE IF ~a.sig \/ ~a.v \/ ~a.r \/ ~a.s
             THEN Fail(K1, o, "MissingSignatureError")
        ELSE Ok(K1, o, <<txToReturn(o.tx, o.req)>>)

\* The callback of sdkSession.sign in signMessage.
signMessageCb(K, o, resp) ==
    IF resp = "err" THEN Fail(K, o, "DeviceError")
    ELSE IF syncedUID(K) = NULL THEN Fail(K, o, "StaleWalletError")
    ELSE LET K1 == _syncCurrentWalletUID(K)
         IN  IF resp = "noSig" THEN Fail(K1, o, "MissingSignatureError")
             ELSE Ok(K1, o, <<"signature">>)

----------------------------------------------------------------------------
(* Version E: unlock *)

RECURSIVE unlock(_, _)

\* What the caller of unlock() does when unlock resolves.
unlockThen(K, o) ==
    CASE o.kind = "unlock" -> Ok(K, o, <<"Unlocked">>)
      [] o.kind = "addAccounts" -> _fetchAddresses(K, o, o.count, K.unlockedAccount)
      [] o.kind = "getPage" -> _fetchAddresses(K, o, PER_PAGE, o.start)
      [] o.kind \in {"signTransaction", "signMessage"} ->
            \* _findSignerIdx: _ensureCurrentWalletUID, then the lookup
            IF _getCurrentWalletUID(K) # NULL THEN signRequest(K, o)
            ELSE IF o.stage = "unlock" THEN unlock(K, [o EXCEPT !.stage = "ensure"])
            ELSE Fail(K, o, "NoWalletAccessError")

\* _connect up to the connect request.
_connect(K, o) ==
    Cfg([K EXCEPT !.sdkSession[1].timeout = CONNECT_TIMEOUT],
        [o EXCEPT !.pc = "connect", !.sent = @ \cup {"connect"}])

\* _initSession, then _connect.
_initSession(K, o) ==
    IF isUnlocked(K) THEN _connect(K, o)
    ELSE IF ~_hasCreds(K) THEN Fail(K, o, "MissingCredentialsError")
    ELSE _connect([K EXCEPT !.sdkSession = <<NewSession(K)>>], o)

\* unlock's .then after _getCreds resolved with creds.
credsThen(K, o, creds) ==
    _initSession([K EXCEPT !.creds = [deviceID |-> creds.deviceID,
                                      password |-> creds.password,
                                      endpoint |-> creds.endpoint]], o)

\* Mutant: the callback does not test what _syncCurrentWalletUID returns.
_connectCb_ignoresMissingWallet(K, o, err) ==
    IF K.sdkSession = <<>> THEN Hang(K, o, "TypeError")
    ELSE LET K1 == [K EXCEPT !.sdkSession[1].timeout = SDK_TIMEOUT]
         IN  IF err THEN Fail(K1, o, "DeviceError")
             ELSE unlockThen(_syncCurrentWalletUID(K1), o)

\* The callback of sdkSession.connect.
\* Mutant: the request timeout is put back only when connect succeeded.
_connectCb_keepsTimeoutOnError(K, o, err) ==
    IF K.sdkSession = <<>> THEN Hang(K, o, "TypeError")
    ELSE LET K1 == [K EXCEPT !.sdkSession[1].timeout = SDK_TIMEOUT]
         IN  IF err THEN Fail(K, o, "DeviceError")
             ELSE IF syncedUID(K1) = NULL THEN Fail(K1, o, "NoActiveWalletError")
             ELSE unlockThen(_syncCurrentWalletUID(K1), o)

_connectCb(K, o, err) ==
    IF K.sdkSession = <<>> THEN Hang(K, o, "TypeError")
    ELSE LET K1 == [K EXCEPT !.sdkSession[1].timeout = SDK_TIMEOUT]
         IN  IF err THEN Fail(K1, o, "DeviceError")
             ELSE IF syncedUID(K1) = NULL THEN Fail(K1, o, "NoActiveWalletError")
             ELSE unlockThen(_syncCurrentWalletUID(K1), o)

\* Mutant: the companion tab is opened whether or not credentials are stored.
_getCreds_alwaysOpens(K, o) ==
    Cfg([K EXCEPT !.forceReconnect = FALSE], [o EXCEPT !.pc = "creds"])

\* _getCreds up to opening the companion tab.
_getCreds(K, o) ==
    IF _hasCreds(K) /\ ~K.forceReconnect THEN _initSession(K, o)
    ELSE Cfg([K EXCEPT !.forceReconnect = FALSE], [o EXCEPT !.pc = "creds"])

\* Mutant: unlock without the "already unlocked" short cut.
unlock_noShortCut(K, o) ==
    IF Len(K.accounts) > 0 /\ Len(K.accountOpts) # Len(K.accounts)
    THEN Fail(_resetDefaults(K), o, "AccountsClearedError")
    ELSE _getCreds(K, o)

unlock(K, o) ==
    IF Len(K.accounts) > 0 /\ Len(K.accountOpts) # Len(K.accounts)
    THEN Fail(_resetDefaults(K), o, "AccountsClearedError")
    ELSE IF isUnlocked(K) /\ ~K.forceReconnect THEN unlockThen(K, o)
    ELSE _getCreds(K, o)

\* The companion tab answers, is closed, or could not be opened.
\* r is "closed", "cannotOpen", or the payload posted by the tab.
_getCredsSettle(K, o, r) ==
    CASE r = "cannotOpen" -> Hang(K, o, "ConnectorOpenError")
      [] r = "closed" -> Fail(K, o, "ConnectorClosedError")
      [] r = "invalid" -> Fail(K, o, "InvalidCredentialsError")
      [] r = "valid" -> credsThen(K, o, GoodCreds)

\* The handshake of _getCreds step by step.  The promise settles once:
\* resolve or reject on a promise that is no longer pending does nothing.
settleCreds(K, o, outcome) ==
    IF o.pc # "creds" THEN Cfg(K, o)
    ELSE CASE outcome = "valid" -> credsThen(K, o, GoodCreds)
           [] outcome = "invalid" -> Fail(K, o, "InvalidCredentialsError")
           [] outcome = "malformed" -> Fail(K, o, "SyntaxError")
           [] outcome = "closed" -> Fail(K, o, "ConnectorClosedError")

\* .then of _openConnectorTab; its rejection has no handler.
openConnectorTabThen(K, o, conn) ==
    CASE conn = "cannotOpen" -> Hang(K, o, "ConnectorOpenError")
      [] conn = "chromium" ->
            Cfg(K, [o EXCEPT !.watch = [browser |-> "chromium", tab |-> "open",
                                        poll |-> TRUE, listener |-> TRUE]])
      [] conn = "firefox" ->
            Cfg(K, [o EXCEPT !.watch = [browser |-> "firefox", tab |-> "open",
                                        poll |-> TRUE, listener |-> FALSE]])

\* receiveMessage(event): event is "foreign" (another origin) or what the
\* data parses to.
receiveMessage(K, o, event) ==
    IF event = "foreign" THEN Cfg(K, o)
    ELSE settleCreds(K, [o EXCEPT !.watch.poll = FALSE], event)

\* One turn of the setInterval callback.
listenIntervalTick(K, o) ==
    IF o.watch.browser = "chromium"
    THEN IF o.watch.tab = "closed"
         THEN settleCreds(K, [o EXCEPT !.watch.poll = FALSE], "closed")
         ELSE Cfg(K, o)
    ELSE \* firefox: _findTabById, then the URL of the tab
         IF o.watch.tab = "closed" THEN settleCreds(K, o, "closed")
         ELSE IF o.watch.tab = "open" THEN Cfg(K, o)
         ELSE LET o1 == [o EXCEPT !.watch.poll = FALSE, !.watch.tab = "closed"]
              IN  IF o.watch.tab = "malformed"
                  THEN \* JSON.parse throws inside .then of tabs.remove
                       IF o.pc = "creds" THEN Hang(K, o1, "SyntaxError") ELSE Cfg(K, o1)
                  ELSE settleCreds(K, o1, o.watch.tab)

\* Mutant: the page is not clamped at 0.
_getPage_noClamp(K, o, increment) ==
    unlock([K EXCEPT !.page = K.page + increment],
           [o EXCEPT !.start = PER_PAGE * (K.page + increment)])

\* _getPage up to unlock.
_getPage(K, o, increment) ==
    LET p == IF K.page + increment < 0 THEN 0 ELSE K.page + increment
    IN  unlock([K EXCEPT !.page = p], [o EXCEPT !.start = PER_PAGE * p])

\* Mutant: the sign of n is tested before the sentinel.
addAccounts_signFirst(K, o, n) ==
    IF n <= 0 THEN Fail(K, o, "NonPositiveCountError")
    ELSE IF n = CLOSE_CODE THEN Ok(_resetDefaults(K), o, <<>>)
    ELSE unlock(K, o)

\* Mutant: n < 0 instead of n <= 0.
addAccounts_allowsZero(K, o, n) ==
    IF n = CLOSE_CODE THEN Ok(_resetDefaults(K), o, <<>>)
    ELSE IF n < 0 THEN Fail(K, o, "NonPositiveCountError")
    ELSE unlock(K, o)

addAccounts(K, o, n) ==
    IF n = CLOSE_CODE THEN Ok(_resetDefaults(K), o, <<>>)
    ELSE IF n <= 0 THEN Fail(K, o, "NonPositiveCountError")
    ELSE unlock(K, o)

\* array.splice(i, 1), i counted from 1; nothing happens past the end.
splice1(seq, i) ==
    IF i > Len(seq) THEN seq
    ELSE SubSeq(seq, 1, i - 1) \o SubSeq(seq, i + 1, Len(seq))

\* removeAccount: forEach over the indices 0..length-1 of the array as it
\* was when the loop started, skipping the indices that a splice removed.
RECURSIVE removeLoop(_, _, _, _)
removeLoop(K, address, i, len) ==
    IF i > len THEN K
    ELSE IF i <= Len(K.accounts) /\ toLowerCase(K.accounts[i]) = toLowerCase(address)
         THEN removeLoop([K EXCEPT !.accounts = splice1(@, i),
                                   !.accountIndices = splice1(@, i),
                                   !.accountOpts = splice1(@, i)],
                         address, i + 1, len)
    ELSE removeLoop(K, address, i + 1, len)

removeAccount(K, address) == removeLoop(K, address, 1, Len(K.accounts))

----------------------------------------------------------------------------
(* Version D (src/unnamed/part_001, second class): unlock(updateData),     *)
(* _connect(updateData), accounts without accountOpts.                      *)

\* signMessage chains no .catch on _unlockAndFindAccount: a rejection or a
\* throw before its own rejects leaves its promise pending for ever.
FailD(K, o, e) ==
    IF o.kind = "signMessage" THEN Hang(K, o, e) ELSE Fail(K, o, e)

NewSessionD(K) ==
    [timeout |-> SDK_TIMEOUT,
     baseUrl |-> IF K.creds.endpoint # NULL THEN K.creds.endpoint
                 ELSE IF K.network # NULL /\ K.network # "mainnet"
                      THEN "https://signing.staging-gridpl.us"
                 ELSE "https://signing.gridpl.us",
     privKey |-> _genSessionKey(K),
     active |-> NULL]

\* accounts.indexOf(addr) === -1
notCachedD(K, addr) == \A j \in 1..Len(K.accounts) : K.accounts[j] # addr

RECURSIVE pushAddrsD(_, _, _)
pushAddrsD(K, addrs, i) ==
    IF i > Len(addrs) THEN K
    ELSE IF notCachedD(K, addrs[i])
         THEN pushAddrsD([K EXCEPT !.accounts = Append(@, addrs[i]),
                                   !.accountIndices = Append(@, K.unlockedAccount + (i - 1))],
                         addrs, i + 1)
    ELSE pushAddrsD(K, addrs, i + 1)

addAccountsThenD(K, o, addrs) ==
    LET K1 == pushAddrsD(K, addrs, 1) IN Ok(K1, o, K1.accounts)

fetchThenD(K, o, addrs) ==
    IF o.kind = "addAccounts" THEN addAccountsThenD(K, o, addrs)
    ELSE _getPageThen(K, o, addrs)

__fetchAddressesD(K, o, n, i, recursedAddrs, inCallback) ==
    IF n = 0 THEN fetchThenD(K, o, recursedAddrs)
    ELSE IF _getHDPathIndicesThrows(K.hdPath, i)
         THEN IF inCallback THEN Hang(K, o, "InvalidPathError")
              ELSE Fail(K, o, "InvalidPathError")
    ELSE IF K.sdkSession = <<>> THEN Hang(K, o, "TypeError")
    ELSE LET shouldRecurse == _hdPathHasInternalVarIdx(K.hdPath)
         IN  Cfg(K, [o EXCEPT !.pc = "addr",
                              !.n = n, !.i = i, !.acc = recursedAddrs,
                              !.recurse = shouldRecurse,
                              !.reqPath = _getHDPathIndices(K.hdPath, i),
                              !.reqN = IF shouldRecurse THEN 1 ELSE n,
                              !.sent = @ \cup {"getAddresses"}])

_fetchAddressesD(K, o, n, i) ==
    IF ~_hasSession(K) THEN Fail(K, o, "NoConnectionError")
    ELSE __fetchAddressesD(K, o, n, i, <<>>, FALSE)

getAddressesCbD(K, o, err, addrs) ==
    IF err THEN Fail(K, o, "DeviceError")
    ELSE IF Len(addrs) < 1 THEN Fail(K, o, "NoAddressesReturnedError")
    ELSE IF o.recurse
         THEN __fetchAddressesD(K, o, o.n - 1, o.i + 1, o.acc \o addrs, TRUE)
    ELSE fetchThenD(K, o, addrs)

\* _unlockAndFindAccount's lookup, then the request of signTransaction or
\* signMessage: the path comes from this.hdPath and the cached index.
signRequestD(K, o) ==
    LET addrIdx == lastMatch(K, o.address)
    IN  IF addrIdx = 0 THEN FailD(K, o, "SignerNotPresentError")
        ELSE IF _getHDPathIndicesThrows(K.hdPath, signerIndex(K, addrIdx))
             THEN FailD(K, o, "InvalidPathError")
        ELSE IF ~_hasSession(K) THEN Fail(K, o, "NoConnectionError")
        ELSE Cfg(K, [o EXCEPT !.pc = "sign",
                              !.reqPath = _getHDPathIndices(K.hdPath,
                                                            signerIndex(K, addrIdx)),
                              !.sent = @ \cup {"sign"}])

signCbD(K, o, resp) ==
    IF resp = "err" THEN Fail(K, o, "DeviceError")
    ELSE IF resp = "noTx" /\ o.kind = "signTransaction"
         THEN Fail(K, o, "NoTxPayloadError")
    ELSE IF resp = "noSig" THEN Fail(K, o, "MissingSignatureError")
    ELSE Ok(K, o, <<"signed">>)

unlockThenD(K, o) ==
    CASE o.kind = "unlock" -> Ok(K, o, <<"Unlocked">>)
      [] o.kind = "addAccounts" -> _fetchAddressesD(K, o, o.count, K.unlockedAccount)
      [] o.kind = "getPage" -> _fetchAddressesD(K, o, PER_PAGE, o.start)
      [] o.kind \in {"signTransaction", "signMessage"} -> signRequestD(K, o)

\* _connect(updateData) up to the connect request.
_connectD(K, o) ==
    Cfg(K, [o EXCEPT !.pc = "connect", !.sent = @ \cup {"connect"}])

_initSessionD(K, o) ==
    IF _hasSession(K) THEN _connectD(K, o)
    ELSE IF ~_hasCreds(K) THEN FailD(K, o, "MissingCredentialsError")
    ELSE _connectD([K EXCEPT !.sdkSession = <<NewSessionD(K)>>], o)

credsThenD(K, o, creds) ==
    _initSessionD([K EXCEPT !.creds = [deviceID |-> creds.deviceID,
                                       password |-> creds.password,
                                       endpoint |-> creds.endpoint]], o)

\* Mutant: updateData is not looked at, a changed wallet is always adopted.
_connectCbD_alwaysUpdates(K, o, err) ==
    IF err THEN FailD(K, o, "DeviceError")
    ELSE IF K.sdkSession = <<>> THEN Hang(K, o, "TypeError")
    ELSE IF getActiveWallet(K) = NULL THEN FailD(K, o, "NoActiveWalletError")
    ELSE IF getActiveWallet(K) # K.walletUID
         THEN unlockThenD([K EXCEPT !.accounts = <<>>,
                                    !.walletUID = getActiveWallet(K)], o)
    ELSE unlockThenD(K, o)

\* The callback of sdkSession.connect in _connect(updateData); o.upd is
\* updateData.
_connectCbD(K, o, err) ==
    IF err THEN FailD(K, o, "DeviceError")
    ELSE IF K.sdkSession = <<>> THEN Hang(K, o, "TypeError")
    ELSE IF getActiveWallet(K) = NULL THEN FailD(K, o, "NoActiveWalletError")
    ELSE IF getActiveWallet(K) # K.walletUID
         THEN IF o.upd = FALSE THEN FailD(K, o, "WalletChangedError")
              ELSE unlockThenD([K EXCEPT !.accounts = <<>>,
                                         !.walletUID = getActiveWallet(K)], o)
    ELSE unlockThenD(K, o)

\* unlock(updateData): _getCreds first; there is no short cut.
unlockD(K, o) ==
    IF _hasCreds(K) THEN _initSessionD(K, o)
    ELSE Cfg(K, [o EXCEPT !.pc = "creds"])

\* window.open gave no popup (popup.postMessage throws in the executor),
\* the popup was closed (no message ever comes), or it posted a payload.
_getCredsSettleD(K, o, r) ==
    CASE r = "cannotOpen" -> FailD(K, o, "TypeError")
      [] r = "closed" -> Hang(K, o, "ConnectorClosed")
      [] r = "invalid" -> FailD(K, o, "InvalidCredentialsError")
      [] r = "valid" -> credsThenD(K, o, GoodCreds)

_getPageD(K, o, increment) ==
    LET p == IF K.page + increment < 0 THEN 0 ELSE K.page + increment
    IN  unlockD([K EXCEPT !.page = p], [o EXCEPT !.start = PER_PAGE * p])

addAccountsD(K, o, n) ==
    IF n = CLOSE_CODE THEN Ok(_resetDefaultsD(K), o, <<>>)
    ELSE IF n <= 0 THEN Fail(K, o, "NonPositiveCountError")
    ELSE unlockD(K, o)

----------------------------------------------------------------------------
(* Persisted states handed to the constructor or to deserialize *)

FirstAddress == DeriveAddress("w1", _getHDPathIndices(STANDARD_HD_PATH, 0))

NamedOpts == [NoOpts EXCEPT !.appName = "MetaMask"]

\* what version D serializes: accounts and indices, no accountOpts
LegacyOpts ==
    [NoOpts EXCEPT !.appName = "MetaMask", !.creds = <<GoodCreds>>,
                   !.accounts = <<<<FirstAddress>>>>,
                   !.accountIndices = <<<<0>>>>,
                   !.walletUID = "w1"]

\* what version E serializes after one addAccounts(1)
SavedOpts ==
    [LegacyOpts EXCEPT !.accountOpts =
        <<<<[walletUID |-> "w1", hdPath |-> STANDARD_HD_PATH]>>>>]

InitOpts == {NoOpts, NamedOpts, LegacyOpts, SavedOpts}

----------------------------------------------------------------------------
(* Actions, version E.  `last` names the step just taken and its input;    *)
(* Return is the caller taking note of it (and of a settled or abandoned   *)
(* promise), after which the next call or callback may run.                *)

NoStep == [act |-> "none", in |-> "", address |-> AbsentAddress, pre |-> 0, page |-> 0]

\* the step being taken: the call or callback, its input, the address it
\* was given, and the number of cached accounts and the page it found
Note(act, in, address) ==
    [act |-> act, in |-> in, address |-> address, pre |-> Len(this.accounts),
     page |-> this.page]

Ready == last = NoStep
Free(s) == Ready /\ ops[s].pc = "idle"

Step(s, cfg, note) ==
    /\ this' = cfg.k
    /\ ops' = [ops EXCEPT ![s] = cfg.o]
    /\ last' = note
    /\ UNCHANGED deviceWallet

\* A synchronous call of the host.  Callers serialize their calls (the
\* adapter has no queue): none is made while an operation is in flight.
Sync(K, note) ==
    /\ Ready
    /\ \A s \in Slots : ops[s].pc = "idle"
    /\ this' = K
    /\ last' = note
    /\ UNCHANGED <<ops, deviceWallet>>

Return ==
    /\ ~Ready
    /\ last' = NoStep
    /\ ops' = [s \in Slots |-> IF ops[s].pc \in {"done", "hung"} THEN IdleOp ELSE ops[s]]
    /\ UNCHANGED <<this, deviceWallet>>

\* addresses a caller asks to sign with or to remove
CallerAddresses ==
    {toLowerCase(this.accounts[j]) : j \in 1..Len(this.accounts)} \cup {AbsentAddress}

Unlock(s) ==
    /\ Free(s)
    /\ Step(s, unlock(this, NewOp("unlock")), Note("unlock", "", AbsentAddress))

AddAccounts(s, n) ==
    /\ Free(s)
    /\ n > 0 => this.unlockedAccount + n - 1 \in StartIndices
    /\ Step(s, addAccounts(this, [NewOp("addAccounts") EXCEPT !.count = n], n),
            Note("addAccounts", ToString(n), AbsentAddress))

GetFirstPage(s) ==
    /\ Free(s)
    /\ Step(s, _getPage([this EXCEPT !.forceReconnect = TRUE, !.page = 0],
                        NewOp("getPage"), 0),
            Note("getFirstPage", "", AbsentAddress))

\* getFirstPage, noting what it found
GetFirstPageNoted(s) ==
    /\ Free(s)
    /\ Step(s, _getPage([this EXCEPT !.forceReconnect = TRUE, !.page = 0],
                        NewPageOp, 0),
            Note("getFirstPage", "", AbsentAddress))

GetNextPage(s) ==
    /\ Free(s)
    /\ this.page < MaxPage
    /\ Step(s, _getPage(this, NewPageOp, 1), Note("getNextPage", "", AbsentAddress))

GetPreviousPage(s) ==
    /\ Free(s)
    /\ Step(s, _getPage(this, NewPageOp, -1),
            Note("getPreviousPage", "", AbsentAddress))

SignTransaction(s, address) ==
    /\ Free(s)
    /\ Step(s, unlock(this, [NewOp("signTransaction") EXCEPT !.address = address]),
            Note("signTransaction", "", address))

\* signTransaction(address, tx) while the signer session reports fwVersion
SignTransactionOf(s, address, tx, fwVersion) ==
    /\ Free(s)
    /\ Step(s, unlock(this, [NewOp("signTransaction") EXCEPT
                                !.address = address, !.tx = tx,
                                !.fwVersion = fwVersion]),
            Note("signTransaction", "", address))

SignMessage(s, address) ==
    /\ Free(s)
    /\ Step(s, unlock(this, [NewOp("signMessage") EXCEPT !.address = address]),
            Note("signMessage", "", address))

RemoveAccount(address) ==
    Sync(removeAccount(this, address), Note("removeAccount", "", address))

\* forgetDevice is also called while an operation waits for the device.
ForgetDevice ==
    /\ Ready
    /\ this' = _resetDefaults(this)
    /\ last' = Note("forgetDevice", "", AbsentAddress)
    /\ UNCHANGED <<ops, deviceWallet>>

SetHdPath(hdPath) ==
    /\ hdPath # this.hdPath
    /\ Sync([this EXCEPT !.hdPath = hdPath], Note("setHdPath", "", AbsentAddress))

SetAccountToUnlock(index) ==
    /\ index # this.unlockedAccount
    /\ Sync([this EXCEPT !.unlockedAccount = index],
            Note("setAccountToUnlock", ToString(index), AbsentAddress))

CredsResponse(s, r) ==
    /\ Ready
    /\ ops[s].pc = "creds"
    /\ Step(s, _getCredsSettle(this, ops[s], r), Note("credsResponse", r, AbsentAddress))

ConnectResponse(s, err) ==
    /\ Ready
    /\ ops[s].pc = "connect"
    /\ Step(s, _connectCb(IF err THEN this ELSE SdkSees(this, deviceWallet), ops[s], err),
            Note("connectResponse", IF err THEN "err" ELSE "ok", AbsentAddress))

\* The device answers getAddresses: an error, the addresses of its active
\* wallet, or an empty list.
AddressesResponse(s, r) ==
    /\ Ready
    /\ ops[s].pc = "addr"
    /\ r # "err" => deviceWallet # NULL
    /\ LET cfg == getAddressesCb(
                      IF r = "err" THEN this ELSE SdkSees(this, deviceWallet),
                      ops[s], r = "err",
                      IF r = "ok"
                      THEN DeviceAddresses(deviceWallet, ops[s].reqPath, ops[s].reqN)
                      ELSE <<>>)
       IN  /\ Len(cfg.k.accounts) <= MaxAccounts
           /\ Step(s, cfg, Note("addressesResponse", r, AbsentAddress))

SignResponse(s, r) ==
    /\ Ready
    /\ ops[s].pc = "sign"
    /\ r \in {"noTx", "noR", "noS", "noV"} => ops[s].kind = "signTransaction"
    /\ Step(s, IF ops[s].kind = "signTransaction"
               THEN _signTxDataCb(IF r = "err" THEN this ELSE SdkSees(this, deviceWallet),
                                  ops[s], r)
               ELSE signMessageCb(IF r = "err" THEN this ELSE SdkSees(this, deviceWallet),
                                  ops[s], r),
            Note("signResponse", r, ops[s].address))

\* A SafeCard is inserted or removed: the device's active wallet changes.
SwapWallet(w) ==
    /\ Ready
    /\ w # deviceWallet
    /\ deviceWallet' = w
    /\ last' = Note("swapWallet", w, AbsentAddress)
    /\ UNCHANGED <<this, ops>>

\* new LatticeKeyring(opts)
Init ==
    /\ \E opts \in InitOpts : this = deserialize(_resetDefaults(BlankKeyring), opts)
    /\ ops = [s \in Slots |-> IdleOp]
    /\ deviceWallet = "w1"
    /\ last = NoStep

Next ==
    \/ \E s \in Slots : Unlock(s)
    \/ \E s \in Slots, n \in Counts : AddAccounts(s, n)
    \/ \E s \in Slots : GetFirstPage(s)
    \/ \E s \in Slots, a \in CallerAddresses : SignTransaction(s, a)
    \/ \E s \in Slots, a \in CallerAddresses : SignMessage(s, a)
    \/ \E a \in CallerAddresses : RemoveAccount(a)
    \/ ForgetDevice
    \/ \E t \in Templates : SetHdPath(t)
    \/ \E i \in StartIndices : SetAccountToUnlock(i)
    \/ \E s \in Slots, r \in {"valid", "invalid", "closed", "cannotOpen"} : CredsResponse(s, r)
    \/ \E s \in Slots, err \in BOOLEAN : ConnectResponse(s, err)
    \/ \E s \in Slots, r \in {"err", "ok", "empty"} : AddressesResponse(s, r)
    \/ \E s \in Slots, r \in {"err", "ok", "noSig", "noTx"} : SignResponse(s, r)
    \/ \E w \in Wallets : SwapWallet(w)
    \/ Return

Spec == Init /\ [][Next]_vars

\* Paging alone, with a device that may have no active wallet, under the
\* standard template and one whose variable index is not the last.
PagingTemplates == {STANDARD_HD_PATH, LEDGER_LIVE_PATH}

NextPaging ==
    \/ \E s \in Slots : Unlock(s)
    \/ \E s \in Slots : GetFirstPageNoted(s)
    \/ \E s \in Slots : GetNextPage(s)
    \/ \E s \in Slots : GetPreviousPage(s)
    \/ \E t \in PagingTemplates : SetHdPath(t)
    \/ ForgetDevice
    \/ \E s \in Slots, r \in {"valid", "invalid", "closed", "cannotOpen"} : CredsResponse(s, r)
    \/ \E s \in Slots, err \in BOOLEAN : ConnectResponse(s, err)
    \/ \E s \in Slots, r \in {"err", "ok", "empty"} : AddressesResponse(s, r)
    \/ \E w \in Wallets \cup {NULL} : SwapWallet(w)
    \/ Return

SpecPaging == Init /\ [][NextPaging]_vars

\* Two calls of the host in flight at once: the adapter has no queue and
\* nothing in it stops a second call made before the first has settled.
\* (Each call polls its own companion tab, so the tabs answer one by one.)
OverlapSlots == {1, 2}

InitOverlap ==
    /\ \E opts \in {NoOpts, NamedOpts, SavedOpts} :
           this = deserialize(_resetDefaults(BlankKeyring), opts)
    /\ ops = [s \in OverlapSlots |-> IdleOp]
    /\ deviceWallet = "w1"
    /\ last = NoStep

ReturnOverlap ==
    /\ ~Ready
    /\ last' = NoStep
    /\ ops' = [s \in OverlapSlots |->
                  IF ops[s].pc \in {"done", "hung"} THEN IdleOp ELSE ops[s]]
    /\ UNCHANGED <<this, deviceWallet>>

NextOverlap ==
    \/ \E s \in OverlapSlots : Unlock(s)
    \/ \E s \in OverlapSlots : GetFirstPage(s)
    \/ \E s \in OverlapSlots, a \in CallerAddresses : SignMessage(s, a)
    \/ \E s \in OverlapSlots, r \in {"valid", "invalid", "closed", "cannotOpen"} :
          CredsResponse(s, r)
    \/ \E s \in OverlapSlots, err \in BOOLEAN : ConnectResponse(s, err)
    \/ \E s \in OverlapSlots, r \in {"err", "ok", "empty"} : AddressesResponse(s, r)
    \/ \E s \in OverlapSlots, r \in {"err", "ok", "noSig"} : SignResponse(s, r)
    \/ ReturnOverlap

SpecOverlap == InitOverlap /\ [][NextOverlap]_vars

\* Signing transactions of every type, on firmware before and after typed
\* transactions, with a device that may have no active wallet.
Txs ==
    {LegacyTx, AccessListTx, FeeMarketTx,
     [FeeMarketTx EXCEPT !.maxFeePerGas = ABSENT],
     [FeeMarketTx EXCEPT !.maxPriorityFeePerGas = NULL]}

FwVersions == {<<0, 10, 0>>, <<7, 0, 0>>, TypedTxFirmware, <<0, 12, 0>>, <<0, 10, 1>>, <<0, 0, 1>>}

InitSign ==
    /\ \E opts \in {NamedOpts, SavedOpts} :
           this = deserialize(_resetDefaults(BlankKeyring), opts)
    /\ ops = [s \in Slots |-> IdleOp]
    /\ deviceWallet = "w1"
    /\ last = NoStep

NextSign ==
    \/ \E s \in Slots : Unlock(s)
    \/ \E s \in Slots, a \in CallerAddresses, tx \in Txs, fw \in FwVersions :
          SignTransactionOf(s, a, tx, fw)
    \/ ForgetDevice
    \/ \E s \in Slots, r \in {"valid", "invalid", "closed", "cannotOpen"} : CredsResponse(s, r)
    \/ \E s \in Slots, err \in BOOLEAN : ConnectResponse(s, err)
    \/ \E s \in Slots, r \in {"err", "ok", "noTx", "noSig", "noR", "noS", "noV"} :
          SignResponse(s, r)
    \/ \E w \in Wallets \cup {NULL} : SwapWallet(w)
    \/ Return

SpecSign == InitSign /\ [][NextSign]_vars

\* _getHDPathIndices and _hdPathHasInternalVarIdx called for every template
\* of up to MaxSegments segments and for the first insertion indices.
MaxSegments == 6
MaxInsertIdx == 2
Segments == {"44'", "0", "x", "x'"}
PathTemplates ==
    UNION {[1..n -> Segments] : n \in 0..MaxSegments}

InitPath ==
    /\ \E t \in PathTemplates : this = [_resetDefaults(BlankKeyring) EXCEPT !.hdPath = t]
    /\ ops = [s \in Slots |-> IdleOp]
    /\ deviceWallet = "w1"
    /\ last = NoStep

\* this._getHDPathIndices(this.hdPath, insertIdx)
GetHDPathIndices(s, insertIdx) ==
    /\ Free(s)
    /\ LET o == [NewOp("_getHDPathIndices") EXCEPT !.start = insertIdx]
       IN  Step(s, IF _getHDPathIndicesThrows(this.hdPath, insertIdx)
                   THEN Fail(this, o, "InvalidPathError")
                   ELSE Ok(this, o, _getHDPathIndices(this.hdPath, insertIdx)),
                Note("_getHDPathIndices", ToString(insertIdx), AbsentAddress))

\* this._hdPathHasInternalVarIdx()
HdPathHasInternalVarIdx(s) ==
    /\ Free(s)
    /\ Step(s, Ok(this, NewOp("_hdPathHasInternalVarIdx"),
                   <<_hdPathHasInternalVarIdx(this.hdPath)>>),
            Note("_hdPathHasInternalVarIdx", "", AbsentAddress))

NextPath ==
    \/ \E s \in Slots, i \in 0..MaxInsertIdx : GetHDPathIndices(s, i)
    \/ \E s \in Slots : HdPathHasInternalVarIdx(s)
    \/ Return

SpecPath == InitPath /\ [][NextPath]_vars

----------------------------------------------------------------------------
(* The session key: credentials are stored by deserialize, the host keeps  *)
(* the keys of two derivations side by side.                               *)

Passwords == {NULL, "a", "ab"}
DeviceIDs == {NULL, "a", "ba"}
AppNames == {NULL, "a", "ab"}

InitKey ==
    /\ this = _resetDefaults(BlankKeyring)
    /\ ops = [s \in OverlapSlots |-> IdleOp]
    /\ deviceWallet = "w1"
    /\ last = NoStep

DeserializeCreds(password, deviceID, appName) ==
    /\ Ready
    /\ this' = deserialize(this,
                  [NoOpts EXCEPT !.creds = <<[deviceID |-> deviceID, password |-> password,
                                              endpoint |-> NULL]>>,
                                 !.appName = appName])
    /\ last' = Note("deserialize", "", AbsentAddress)
    /\ UNCHANGED <<ops, deviceWallet>>

GenSessionKey(s) ==
    /\ Free(s)
    /\ LET o == [NewOp("_genSessionKey") EXCEPT !.before = Snapshot(this)]
       IN  Step(s, IF ~_hasCreds(this) THEN Fail(this, o, "MissingCredentialsError")
                   ELSE Ok(this, o, <<_genSessionKey(this)>>),
                Note("_genSessionKey", "", AbsentAddress))

\* the host drops a key it holds
DropKey(s) ==
    /\ Ready
    /\ ops[s].pc = "done"
    /\ ops' = [ops EXCEPT ![s] = IdleOp]
    /\ UNCHANGED <<this, deviceWallet, last>>

ReturnKey ==
    /\ ~Ready
    /\ last' = NoStep
    /\ UNCHANGED <<this, ops, deviceWallet>>

NextKey ==
    \/ \E p \in Passwords, d \in DeviceIDs, a \in AppNames : DeserializeCreds(p, d, a)
    \/ \E s \in OverlapSlots : GenSessionKey(s)
    \/ \E s \in OverlapSlots : DropKey(s)
    \/ ReturnKey

SpecKey == InitKey /\ [][NextKey]_vars

----------------------------------------------------------------------------
(* The cache under setAccountToUnlock and addAccounts alone *)

NextAdd ==
    \/ \E s \in Slots, n \in Counts : AddAccounts(s, n)
    \/ \E i \in StartIndices : SetAccountToUnlock(i)
    \/ \E s \in Slots, r \in {"valid", "invalid", "closed", "cannotOpen"} : CredsResponse(s, r)
    \/ \E s \in Slots, err \in BOOLEAN : ConnectResponse(s, err)
    \/ \E s \in Slots, r \in {"err", "ok", "empty"} : AddressesResponse(s, r)
    \/ Return

SpecAdd == Init /\ [][NextAdd]_vars

----------------------------------------------------------------------------
(* The two callers of _fetchAddresses, with and without a template that    *)
(* needs one request per index.                                            *)

NextFetch ==
    \/ NextAdd
    \/ \E s \in Slots : GetFirstPageNoted(s)
    \/ \E s \in Slots : GetNextPage(s)
    \/ \E t \in PagingTemplates : SetHdPath(t)

SpecFetch == Init /\ [][NextFetch]_vars

----------------------------------------------------------------------------
(* The credential handshake in detail: the tab, the message listener and   *)
(* the poll.                                                               *)

Payloads == {"valid", "invalid", "malformed"}

InitCreds ==
    /\ \E opts \in {NoOpts, NamedOpts, SavedOpts} :
           this = deserialize(_resetDefaults(BlankKeyring), opts)
    /\ ops = [s \in Slots |-> IdleOp]
    /\ deviceWallet = "w1"
    /\ last = NoStep

TabOpened(s, conn) ==
    /\ Ready
    /\ ops[s].pc = "creds" /\ ops[s].watch.browser = "none"
    /\ Step(s, openConnectorTabThen(this, ops[s], conn), Note("tabOpened", conn, AbsentAddress))

\* the user closes the tab
TabClosed(s) ==
    /\ Ready
    /\ ops[s].watch.tab = "open"
    /\ Step(s, Cfg(this, [ops[s] EXCEPT !.watch.tab = "closed"]),
            Note("tabClosed", "", AbsentAddress))

\* the connector page puts the login data in its URL (Firefox)
TabLogin(s, payload) ==
    /\ Ready
    /\ ops[s].watch.browser = "firefox" /\ ops[s].watch.tab = "open"
    /\ Step(s, Cfg(this, [ops[s] EXCEPT !.watch.tab = payload]),
            Note("tabLogin", payload, AbsentAddress))

\* a message event on the window
Message(s, event) ==
    /\ Ready
    /\ ops[s].watch.listener
    /\ event # "foreign" => ops[s].watch.tab = "open"
    /\ Step(s, receiveMessage(this, ops[s], event), Note("message", event, AbsentAddress))

PollTick(s) ==
    /\ Ready
    /\ ops[s].watch.poll
    /\ Step(s, listenIntervalTick(this, ops[s]), Note("pollTick", "", AbsentAddress))

NextCreds ==
    \/ \E s \in Slots : Unlock(s)
    \/ \E s \in Slots : GetFirstPage(s)
    \/ \E s \in Slots, r \in {"err", "ok"} : AddressesResponse(s, r)
    \/ \E s \in Slots, conn \in {"chromium", "firefox", "cannotOpen"} : TabOpened(s, conn)
    \/ \E s \in Slots : TabClosed(s)
    \/ \E s \in Slots, payload \in Payloads : TabLogin(s, payload)
    \/ \E s \in Slots, event \in Payloads \cup {"foreign"} : Message(s, event)
    \/ \E s \in Slots : PollTick(s)
    \/ \E s \in Slots, err \in BOOLEAN : ConnectResponse(s, err)
    \/ Return

SpecCreds == InitCreds /\ [][NextCreds]_vars

\* the same with signing for the accounts that were added
NextSigner ==
    \/ NextFetch
    \/ \E s \in Slots, a \in CallerAddresses : SignTransaction(s, a)
    \/ \E s \in Slots, a \in CallerAddresses : SignMessage(s, a)
    \/ \E s \in Slots, r \in {"err", "ok", "noSig", "noTx"} : SignResponse(s, r)

SpecSigner == Init /\ [][NextSigner]_vars

\* the same with forgetDevice at any moment
\* setHdPath(hdPath) and setAccountToUnlock(index) are synchronous setters of
\* the host: nothing keeps the host from calling them between the start of an
\* addAccounts fetch and the callback of its address request
Fetches == {s \in Slots : ops[s].kind = "addAccounts" /\ ops[s].pc \in {"creds", "connect", "addr"}}

SetHdPathInFlight(hdPath) ==
    /\ Ready
    /\ Fetches # {}
    /\ hdPath # this.hdPath
    /\ this' = [this EXCEPT !.hdPath = hdPath]
    /\ last' = Note("setHdPath", "", AbsentAddress)
    /\ UNCHANGED <<ops, deviceWallet>>

SetAccountToUnlockInFlight(index) ==
    /\ Ready
    /\ Fetches # {}
    /\ index # this.unlockedAccount
    /\ this' = [this EXCEPT !.unlockedAccount = index]
    /\ last' = Note("setAccountToUnlock", ToString(index), AbsentAddress)
    /\ UNCHANGED <<ops, deviceWallet>>

NextInFlight ==
    \/ NextAdd
    \/ \E t \in PagingTemplates : SetHdPath(t)
    \/ \E t \in PagingTemplates : SetHdPathInFlight(t)
    \/ \E i \in StartIndices : SetAccountToUnlockInFlight(i)

SpecInFlight == Init /\ [][NextInFlight]_vars

\* credentials of a second device, on an endpoint of its own
OtherCreds == [deviceID |-> "dev2", password |-> "pw2", endpoint |-> "https://lattice.example"]

\* the connector page answers with the credentials the user typed
CredsResponseWith(s, creds) ==
    /\ Ready
    /\ ops[s].pc = "creds"
    /\ Step(s, credsThen(this, ops[s], creds), Note("credsResponse", creds.deviceID, AbsentAddress))

NextReconnect ==
    \/ \E s \in Slots : Unlock(s)
    \/ \E s \in Slots : GetFirstPageNoted(s)
    \/ \E s \in Slots : GetNextPage(s)
    \/ ForgetDevice
    \/ \E s \in Slots, creds \in {GoodCreds, OtherCreds} : CredsResponseWith(s, creds)
    \/ \E s \in Slots, r \in {"invalid", "closed"} : CredsResponse(s, r)
    \/ \E s \in Slots, err \in BOOLEAN : ConnectResponse(s, err)
    \/ \E s \in Slots, r \in {"err", "ok"} : AddressesResponse(s, r)
    \/ Return

SpecReconnect == Init /\ [][NextReconnect]_vars

NextFetchForget == NextFetch \/ ForgetDevice

SpecFetchForget == Init /\ [][NextFetchForget]_vars

----------------------------------------------------------------------------
(* Every operation that sends a request to the device, with forgetDevice   *)
(* and a change of the device's wallet at any moment.                      *)

NextRequests ==
    \/ NextPaging
    \/ \E s \in Slots, a \in CallerAddresses : SignTransaction(s, a)
    \/ \E s \in Slots, a \in CallerAddresses : SignMessage(s, a)
    \/ \E s \in Slots, r \in {"err", "ok", "noSig", "noTx"} : SignResponse(s, r)

SpecRequests == Init /\ [][NextRequests]_vars

----------------------------------------------------------------------------
(* Persistence: the host takes the serialized state (held in slot 2) and   *)
(* later hands it to deserialize, of this adapter or of a new one.         *)

TestnetOpts == [SavedOpts EXCEPT !.network = "rinkeby", !.page = 1]

InitPersist ==
    /\ \E opts \in {NoOpts, SavedOpts, TestnetOpts} :
           this = deserialize(_resetDefaults(BlankKeyring), opts)
    /\ ops = [s \in OverlapSlots |-> IdleOp]
    /\ deviceWallet = "w1"
    /\ last = NoStep

Held == ops[2].kind = "serialize" /\ ops[2].pc = "done"

Serialize ==
    /\ Free(2)
    /\ \A s \in Slots : ops[s].pc = "idle"
    /\ Step(2, Ok(this, NewOp("serialize"), <<serialize(this)>>),
            Note("serialize", "", AbsentAddress))

Deserialize ==
    /\ Held
    /\ Sync(deserialize(this, ops[2].out[1]), Note("deserialize", "", AbsentAddress))

\* new LatticeKeyring(state)
Construct ==
    /\ Held
    /\ Sync(deserialize(_resetDefaults(BlankKeyring), ops[2].out[1]),
            Note("constructor", "", AbsentAddress))

\* the host replaces the state it holds
DropState ==
    /\ Ready
    /\ Held
    /\ ops' = [ops EXCEPT ![2] = IdleOp]
    /\ UNCHANGED <<this, deviceWallet, last>>

ReturnPersist ==
    /\ ~Ready
    /\ last' = NoStep
    /\ ops' = [s \in OverlapSlots |->
                  IF s \in Slots /\ ops[s].pc \in {"done", "hung"} THEN IdleOp ELSE ops[s]]
    /\ UNCHANGED <<this, deviceWallet>>

NextPersist ==
    \/ \E s \in Slots : Unlock(s)
    \/ \E s \in Slots : AddAccounts(s, 1)
    \/ \E s \in Slots : GetNextPage(s)
    \/ ForgetDevice
    \/ SetHdPath(LEDGER_LIVE_PATH)
    \/ \E s \in Slots, r \in {"valid", "closed"} : CredsResponse(s, r)
    \/ \E s \in Slots, err \in BOOLEAN : ConnectResponse(s, err)
    \/ \E s \in Slots, r \in {"err", "ok"} : AddressesResponse(s, r)
    \/ Serialize
    \/ Deserialize
    \/ Construct
    \/ DropState
    \/ ReturnPersist

SpecPersist == InitPersist /\ [][NextPersist]_vars

----------------------------------------------------------------------------
(* src/cache.js: the cache of transaction definitions.  A Map is the        *)
(* sequence of its entries in insertion order; a string is the sequence of  *)
(* its characters, a typed array the sequence of its bytes; every value     *)
(* carries its type.                                                        *)

MAX_CACHE_SIZE == 100

\* bound on the calls made on one cache
MaxCalls == 3

undefined == [type |-> "undefined", chars |-> <<>>, bytes |-> <<>>]
String(chars) == [type |-> "string", chars |-> chars, bytes |-> <<>>]
Uint8Array(bytes) == [type |-> "Uint8Array", chars |-> <<>>, bytes |-> bytes]
Definition(name) == [type |-> "object", chars |-> <<name>>, bytes |-> <<>>]

isArrayBuffer(value) == value.type = "Uint8Array"

HexDigits == <<"0", "1", "2", "3", "4", "5", "6", "7", "8", "9", "a", "b", "c", "d", "e", "f">>

RECURSIVE toHex(_)
\* Buffer.from(bytes).toString("hex")
toHex(bytes) ==
    IF bytes = <<>> THEN <<>>
    ELSE <<HexDigits[(Head(bytes) \div 16) + 1], HexDigits[(Head(bytes) % 16) + 1]>>
         \o toHex(Tail(bytes))

\* str.slice(from, to) of a string
slice(str, from, to) ==
    String(SubSeq(str.chars, from + 1, IF to < Len(str.chars) THEN to ELSE Len(str.chars)))

length(value) == IF isArrayBuffer(value) THEN Len(value.bytes) ELSE Len(value.chars)

\* !value, for undefined, strings and typed arrays
falsy(value) == value.type = "undefined" \/ (value.type = "string" /\ value.chars = <<>>)

transformArrayBufferIntoStr(str) ==
    IF falsy(str) \/ length(str) = 0
       \/ (~isArrayBuffer(str) /\ str.type # "string")
    THEN undefined
    ELSE IF ~isArrayBuffer(str) /\ slice(str, 0, 2) = String(<<"0", "x">>)
         THEN slice(str, 2, Len(str.chars))
    ELSE IF isArrayBuffer(str) THEN String(toHex(str.bytes))
    ELSE str

generateDefKey(data, to) ==
    IF falsy(data) \/ falsy(to) THEN undefined
    ELSE LET dataStr == transformArrayBufferIntoStr(data)
             toStr == transformArrayBufferIntoStr(to)
         IN  IF falsy(dataStr) \/ falsy(toStr) THEN undefined
             ELSE String(toStr.chars \o slice(dataStr, 0, 8).chars)

\* cache.keys(), in insertion order
keys(cache) == [j \in 1..Len(cache) |-> cache[j].key]

\* cache.get(key)
get(cache, key) ==
    IF \E j \in 1..Len(cache) : cache[j].key = key
    THEN cache[CHOOSE j \in 1..Len(cache) : cache[j].key = key].def
    ELSE undefined

\* cache.delete(key)
delete(cache, key) == SelectSeq(cache, LAMBDA e : e.key # key)

\* cache.set(key, def): a key the Map holds keeps its place
set(cache, key, def) ==
    IF \E j \in 1..Len(cache) : cache[j].key = key
    THEN [j \in 1..Len(cache) |->
            IF cache[j].key = key THEN [key |-> key, def |-> def] ELSE cache[j]]
    ELSE Append(cache, [key |-> key, def |-> def])

getCachedDef(tx, cache) == get(cache, generateDefKey(tx.data, tx.to))

\* Mutant: a full cache is not trimmed.
saveDefToCache_noEviction(tx, cache, def) ==
    IF falsy(tx.data) \/ length(tx.data) = 0 THEN cache
    ELSE LET key == generateDefKey(tx.data, tx.to)
         IN  IF key = undefined THEN cache ELSE set(cache, key, def)

saveDefToCache(tx, cache, def) ==
    IF falsy(tx.data) \/ length(tx.data) = 0 THEN cache
    ELSE LET key == generateDefKey(tx.data, tx.to)
         IN  IF key = undefined THEN cache
             ELSE set(IF Len(cache) >= MAX_CACHE_SIZE
                      THEN delete(cache, keys(cache)[1])
                      ELSE cache,
                      key, def)

\* the contract address of the transactions
Contract == String(<<"0", "x", "c", "0", "d", "e">>)

\* the k-th call data: a typed array whose selector is k
Calldata(k) == Uint8Array(<<0, 0, k \div 256, k % 256, 1, 2>>)

CallTx(k) == [data |-> Calldata(k), to |-> Contract]

\* call data given as a hex string
HexTx == [data |-> String(<<"0", "x", "0", "0", "0", "0", "0", "0", "0", "1", "f", "f">>),
          to |-> Contract]

\* transactions that carry no definition key
EmptyDataTx == [data |-> String(<<>>), to |-> Contract]
NoDataTx == [data |-> undefined, to |-> Contract]
EmptyBufferTx == [data |-> Uint8Array(<<>>), to |-> Contract]
PrefixOnlyTx == [data |-> String(<<"0", "x">>), to |-> Contract]
NoToTx == [data |-> Calldata(1), to |-> undefined]

CacheTxs ==
    {CallTx(0), CallTx(1), CallTx(MAX_CACHE_SIZE), CallTx(MAX_CACHE_SIZE + 1), HexTx,
     EmptyDataTx, NoDataTx, EmptyBufferTx, PrefixOnlyTx, NoToTx}

CacheDefs == {Definition("def1"), Definition("def2")}

\* the cache after saveDefToCache for the first n call data, n at most
\* MAX_CACHE_SIZE: their keys differ, so each call appended one entry
Filled(n) ==
    [j \in 1..n |-> [key |-> generateDefKey(Calldata(j - 1), Contract),
                     def |-> Definition("def1")]]

NoCall == [act |-> "none", tx |-> NoDataTx, def |-> undefined, pre |-> <<>>,
           out |-> undefined, calls |-> 0]

InitCache ==
    /\ \E n \in {0, 1, MAX_CACHE_SIZE - 1, MAX_CACHE_SIZE} : this = Filled(n)
    /\ ops = [s \in Slots |-> IdleOp]
    /\ deviceWallet = "w1"
    /\ last = NoCall

SaveDefToCache(tx, def) ==
    /\ last.calls < MaxCalls
    /\ this' = saveDefToCache(tx, this, def)
    /\ last' = [act |-> "saveDefToCache", tx |-> tx, def |-> def, pre |-> this,
                out |-> undefined, calls |-> last.calls + 1]
    /\ UNCHANGED <<ops, deviceWallet>>

GetCachedDef(tx) ==
    /\ last.calls < MaxCalls
    /\ last' = [act |-> "getCachedDef", tx |-> tx, def |-> undefined, pre |-> this,
                out |-> getCachedDef(tx, this), calls |-> last.calls + 1]
    /\ UNCHANGED <<this, ops, deviceWallet>>

NextCache ==
    \/ \E tx \in CacheTxs, def \in CacheDefs : SaveDefToCache(tx, def)
    \/ \E tx \in CacheTxs : GetCachedDef(tx)

SpecCache == InitCache /\ [][NextCache]_vars

----------------------------------------------------------------------------
(* Actions, version D *)

UnlockD(s) ==
    /\ Free(s)
    /\ Step(s, unlockD(this, NewOp("unlock")), Note("unlock", "", AbsentAddress))

AddAccountsD(s, n) ==
    /\ Free(s)
    /\ n > 0 => this.unlockedAccount + n - 1 \in StartIndices
    /\ Step(s, addAccountsD(this, [NewOp("addAccounts") EXCEPT !.count = n], n),
            Note("addAccounts", ToString(n), AbsentAddress))

GetFirstPageD(s) ==
    /\ Free(s)
    /\ Step(s, _getPageD([this EXCEPT !.page = 0], NewOp("getPage"), 0),
            Note("getFirstPage", "", AbsentAddress))

\* _unlockAndFindAccount calls unlock(false)
SignTransactionD(s, address) ==
    /\ Free(s)
    /\ Step(s, unlockD(this, [NewOp("signTransaction") EXCEPT !.address = address,
                                                              !.upd = FALSE]),
            Note("signTransaction", "", address))

SignMessageD(s, address) ==
    /\ Free(s)
    /\ Step(s, unlockD(this, [NewOp("signMessage") EXCEPT !.address = address,
                                                          !.upd = FALSE]),
            Note("signMessage", "", address))

\* forgetDevice, and removeAccount, which is forgetDevice in this version
ForgetDeviceD ==
    /\ Ready
    /\ this' = _resetDefaultsD(this)
    /\ last' = Note("forgetDevice", "", AbsentAddress)
    /\ UNCHANGED <<ops, deviceWallet>>

CredsResponseD(s, r) ==
    /\ Ready
    /\ ops[s].pc = "creds"
    /\ Step(s, _getCredsSettleD(this, ops[s], r), Note("credsResponse", r, AbsentAddress))

ConnectResponseD(s, err) ==
    /\ Ready
    /\ ops[s].pc = "connect"
    /\ Step(s, _connectCbD(IF err THEN this ELSE SdkSees(this, deviceWallet), ops[s], err),
            Note("connectResponse", IF err THEN "err" ELSE "ok", AbsentAddress))

AddressesResponseD(s, r) ==
    /\ Ready
    /\ ops[s].pc = "addr"
    /\ r # "err" => deviceWallet # NULL
    /\ LET cfg == getAddressesCbD(
                      this, ops[s], r = "err",
                      IF r = "ok"
                      THEN DeviceAddresses(deviceWallet, ops[s].reqPath, ops[s].reqN)
                      ELSE <<>>)
       IN  /\ Len(cfg.k.accounts) <= MaxAccounts
           /\ Len(cfg.k.accountIndices) <= MaxAccounts
           /\ Step(s, cfg, Note("addressesResponse", r, AbsentAddress))

SignResponseD(s, r) ==
    /\ Ready
    /\ ops[s].pc = "sign"
    /\ r # "err" => deviceWallet # NULL
    /\ r = "noTx" => ops[s].kind = "signTransaction"
    /\ Step(s, signCbD(this, ops[s], r), Note("signResponse", r, ops[s].address))

\* new LatticeKeyring(opts), version D
InitD ==
    /\ \E opts \in {NoOpts, NamedOpts, LegacyOpts} :
          this = deserializeD(_resetDefaultsD(BlankKeyring), opts)
    /\ ops = [s \in Slots |-> IdleOp]
    /\ deviceWallet = "w1"
    /\ last = NoStep

NextD ==
    \/ \E s \in Slots : UnlockD(s)
    \/ \E s \in Slots, n \in Counts : AddAccountsD(s, n)
    \/ \E s \in Slots : GetFirstPageD(s)
    \/ \E s \in Slots, a \in CallerAddresses : SignTransactionD(s, a)
    \/ \E s \in Slots, a \in CallerAddresses : SignMessageD(s, a)
    \/ ForgetDeviceD
    \/ \E t \in Templates : SetHdPath(t)
    \/ \E i \in StartIndices : SetAccountToUnlock(i)
    \/ \E s \in Slots, r \in {"valid", "invalid", "closed", "cannotOpen"} : CredsResponseD(s, r)
    \/ \E s \in Slots, err \in BOOLEAN : ConnectResponseD(s, err)
    \/ \E s \in Slots, r \in {"err", "ok", "empty"} : AddressesResponseD(s, r)
    \/ \E s \in Slots, r \in {"err", "ok", "noSig", "noTx"} : SignResponseD(s, r)
    \/ \E w \in Wallets : SwapWallet(w)
    \/ Return

SpecD == InitD /\ [][NextD]_vars

----------------------------------------------------------------------------
(* Properties *)

SignKinds == {"signTransaction", "signMessage"}

\* the account records: addresses, derivation indices, path/wallet metadata
Cache(K) == <<K.accounts, K.accountIndices, K.accountOpts>>
EmptyCache == <<<<>>, <<>>, <<>>>>

\* the step taken is a call or a callback of operation s
StepOf(s) == ops'[s] # ops[s] /\ last' # NoStep

\* seq without its m-th element (seq itself when it has none)
without(seq, m) ==
    IF m > Len(seq) THEN seq
    ELSE [k \in 1..(Len(seq) - 1) |-> IF k < m THEN seq[k] ELSE seq[k + 1]]

\* the first cached record whose address matches case-insensitively, 0 if none
firstMatch(K, address) ==
    LET hits == {j \in 1..Len(K.accounts) :
                    toLowerCase(K.accounts[j]) = toLowerCase(address)}
    IN  IF hits = {} THEN 0 ELSE CHOOSE j \in hits : \A h \in hits : j <= h

\* credentials, session, wallet UID, cache and cursor are at their initial values
Forgotten(K) ==
    /\ K.creds = [deviceID |-> NULL, password |-> NULL, endpoint |-> NULL]
    /\ K.sdkSession = <<>>
    /\ K.walletUID = NULL
    /\ Cache(K) = EmptyCache
    /\ K.page = 0

\* the cache a first addAccounts(n) at start index s leaves, on wallet w
FirstCallCache(w, hdPath, s, n) ==
    <<DeviceAddresses(w, _getHDPathIndices(hdPath, s), n),
      [k \in 1..n |-> s + (k - 1)],
      [k \in 1..n |-> [walletUID |-> w, hdPath |-> hdPath]]>>

\* accounts restored from a version without accountOpts
legacyCache(K) == Len(K.accounts) > 0 /\ Len(K.accountOpts) # Len(K.accounts)

(* C1 (version D, SpecD): when _connect(updateData = false) gets from the     *)
(* signer a wallet identity other than the stored walletUID, the connect    *)
(* is rejected with the wallet-changed error, and accounts, their indices   *)
(* and the stored walletUID are what they were before the callback.         *)
C1_ConnectRefusesWalletChange ==
    [][\A s \in Slots :
          (/\ ops[s].pc = "connect"
           /\ ops[s].upd = FALSE
           /\ last'.act = "connectResponse"
           /\ last'.in = "ok"
           /\ this.sdkSession # <<>>
           /\ deviceWallet # this.walletUID)
          => (/\ ops'[s].res = "WalletChangedError"
              /\ ops'[s].pc \in {"done", "hung"}
              /\ ops'[s].sent = {"connect"}
              /\ this'.accounts = this.accounts
              /\ this'.accountIndices = this.accountIndices
              /\ this'.walletUID = this.walletUID)]_vars

C1_Witness ==
    \E s \in Slots :
        /\ last.act = "connectResponse"
        /\ ops[s].res = "WalletChangedError"
        /\ Len(this.accounts) > 0
        /\ this.walletUID = "w1"
        /\ deviceWallet = "w2"

(* C2: a step of signTransaction or signMessage that resolves the signer    *)
(* (the call itself, or its connect callback) while the device's active     *)
(* wallet differs from the stored walletUID sends no sign request, leaves   *)
(* the stored walletUID as it is, and does not let the call succeed.        *)
(* (Stated for an address that is cached, the cache having its per-account *)
(* metadata.)                                                               *)
C2_SigningRefusesChangedWallet ==
    [][\A s \in Slots :
          (/\ StepOf(s)
           /\ ops'[s].kind \in SignKinds
           /\ ops[s].pc \in {"idle", "connect"}
           /\ last'.in # "err"
           /\ ~legacyCache(this)
           /\ firstMatch(this, ops'[s].address) # 0
           /\ this.walletUID # NULL
           /\ deviceWallet # this.walletUID)
          => (/\ ops'[s].pc # "sign"
              /\ "sign" \notin ops'[s].sent
              /\ ops'[s].res # "ok"
              /\ this'.walletUID = this.walletUID)]_vars

(* C3, as stated: no step of a signing operation changes the account cache. *)
C3_SigningNeverChangesCache ==
    [][\A s \in Slots :
          (StepOf(s) /\ ops'[s].kind \in SignKinds) => Cache(this') = Cache(this)]_vars

(* C3, amended: a step of a signing operation leaves the account cache as   *)
(* it was, except that a signing call made on a cache restored without      *)
(* per-account metadata empties the cache and is rejected.                  *)
C3_SigningChangesCacheOnlyToClearLegacy ==
    [][\A s \in Slots :
          (StepOf(s) /\ ops'[s].kind \in SignKinds)
          => \/ Cache(this') = Cache(this)
             \/ /\ legacyCache(this)
                /\ ops[s].pc = "idle"
                /\ Cache(this') = EmptyCache
                /\ ops'[s].pc = "done"
                /\ ops'[s].res = "AccountsClearedError"
                /\ ops'[s].sent = {}]_vars

C3_Witness ==
    \E s \in Slots :
        /\ last.act = "signResponse"
        /\ ops[s].kind \in SignKinds
        /\ ops[s].res = "ok"
        /\ Len(this.accounts) > 1
        /\ Len(this.accountOpts) = Len(this.accounts)

\* the wallet UID and path template recorded for the j-th account, if any
metadataAt(K, j) == IF j <= Len(K.accountOpts) THEN <<K.accountOpts[j]>> ELSE <<>>

(* C4: no two records of the account cache have the same address, wallet    *)
(* UID and HD path template.                                                *)
C4_UniqueRecords ==
    \A i, j \in 1..Len(this.accounts) :
        i # j =>
            \/ this.accounts[i] # this.accounts[j]
            \/ metadataAt(this, i) # metadataAt(this, j)

C4_Witness ==
    /\ Len(this.accountOpts) = Len(this.accounts)
    /\ \E i, j \in 1..Len(this.accounts) :
          /\ i < j
          /\ this.accounts[i] = this.accounts[j]
          /\ this.accountOpts[i].walletUID = this.accountOpts[j].walletUID

(* C5: when the cache holds exactly the n records a first addAccounts(n)    *)
(* at the current start index left (same wallet, same path template), the   *)
(* completion of a second addAccounts(n) at that index, the device          *)
(* returning the same addresses, leaves the cache as it is and resolves     *)
(* with those n addresses.                                                  *)
C5_RefetchIsIdempotent ==
    [][\A s \in Slots :
          (/\ ops[s].kind = "addAccounts"
           /\ ops[s].pc = "addr"
           /\ last'.act = "addressesResponse"
           /\ last'.in = "ok"
           /\ Cache(this) = FirstCallCache(deviceWallet, this.hdPath,
                                           this.unlockedAccount, ops[s].count))
          => (/\ Cache(this') = Cache(this)
              /\ ops'[s].pc = "done"
              /\ ops'[s].res = "ok"
              /\ ops'[s].out = this.accounts)]_vars

C5_Witness ==
    \E s \in Slots :
        /\ last.act = "addressesResponse"
        /\ last.pre = 2
        /\ ops[s].kind = "addAccounts"
        /\ ops[s].count = 2
        /\ ops[s].res = "ok"
        /\ Cache(this) = FirstCallCache(deviceWallet, this.hdPath, this.unlockedAccount, 2)

(* C6: removeAccount(address) removes the first record whose address        *)
(* matches case-insensitively, with the index and metadata entries at that  *)
(* position, and nothing else; with no match it changes nothing.            *)
C6_RemoveAccountRemovesFirstMatch ==
    [][last'.act = "removeAccount" =>
          LET m == firstMatch(this, last'.address)
          IN  IF m = 0 THEN this' = this
              ELSE /\ this'.accounts = without(this.accounts, m)
                   /\ this'.accountIndices = without(this.accountIndices, m)
                   /\ this'.accountOpts = without(this.accountOpts, m)
                   /\ Len(this'.accounts) = Len(this.accounts) - 1]_vars

(* C7: a step that replaces a stored walletUID by another wallet identity   *)
(* leaves the account cache empty and the page cursor at 0.                 *)
C7_AdoptionClearsCache ==
    [][(/\ this.walletUID # NULL
        /\ this'.walletUID # NULL
        /\ this'.walletUID # this.walletUID)
       => (Cache(this') = EmptyCache /\ this'.page = 0)]_vars

(* C8: after forgetDevice the credentials, the session, the wallet UID, the *)
(* cache and the page cursor have their initial values, and an unlock       *)
(* called in that state sends nothing to the device and waits for the       *)
(* credentials of the companion tab.                                        *)
C8_ForgetDeviceResets ==
    [][/\ last'.act = "forgetDevice" => Forgotten(this')
       /\ \A s \in Slots :
             (StepOf(s) /\ last'.act = "unlock" /\ Forgotten(this))
             => (/\ ops'[s].pc = "creds"
                 /\ ops'[s].sent = {}
                 /\ this'.sdkSession = <<>>)]_vars

C8_Witness ==
    /\ last.act = "forgetDevice"
    /\ last.pre > 0
    /\ this.appName # NULL
    /\ Forgotten(this)

(* C9: addAccounts(CLOSE_CODE) resets the state as forgetDevice does,       *)
(* resolves with the empty list, and neither opens the companion tab nor    *)
(* sends a request to the device.                                           *)
C9_SentinelForgetsDevice ==
    (last.act = "addAccounts" /\ last.in = ToString(CLOSE_CODE))
    => /\ Forgotten(this)
       /\ this.unlockedAccount = 0
       /\ this.hdPath = STANDARD_HD_PATH
       /\ \A s \in Slots :
             ops[s].kind = "addAccounts"
             => (/\ ops[s].pc = "done"
                 /\ ops[s].res = "ok"
                 /\ ops[s].out = <<>>
                 /\ ops[s].sent = {})

C9_Witness ==
    /\ last.act = "addAccounts"
    /\ last.in = ToString(CLOSE_CODE)
    /\ last.pre > 0
    /\ \E s \in Slots : ops[s].kind = "addAccounts" /\ ops[s].res = "ok"

(* C10: addAccounts(n) with n <= 0, n not the sentinel, is rejected in the  *)
(* call itself: the adapter's state is unchanged, no unlock is started and  *)
(* nothing is sent to the device.                                           *)
C10_NonPositiveCountRejected ==
    [][\A s \in Slots :
          (/\ StepOf(s)
           /\ last'.act = "addAccounts"
           /\ last'.in \in {ToString(n) : n \in {c \in Counts : c <= 0 /\ c # CLOSE_CODE}})
          => (/\ this' = this
              /\ ops'[s].pc = "done"
              /\ ops'[s].res = "NonPositiveCountError"
              /\ ops'[s].sent = {})]_vars

C10_Witness ==
    \E s \in Slots :
        /\ last.act = "addAccounts"
        /\ last.in = "0"
        /\ last.pre > 0
        /\ ops[s].res = "NonPositiveCountError"
        /\ this.sdkSession # <<>>

\* C11: unlock() called while the keyring is connected (a session and a
\* wallet identity) and no reconnect is forced resolves at once: it opens no
\* companion tab, sends no connect request and changes no state.  And an
\* operation started with credentials stored and no reconnect forced never
\* waits for the companion tab.
C11_UnlockShortCircuits ==
    [][\A s \in Slots :
          /\ (StepOf(s) /\ last'.act = "unlock"
                /\ isUnlocked(this) /\ ~this.forceReconnect)
             => /\ this' = this
                /\ ops'[s].pc = "done"
                /\ ops'[s].res = "ok"
                /\ ops'[s].sent = {}
          /\ (StepOf(s) /\ last'.act = "unlock"
                /\ _hasCreds(this) /\ ~this.forceReconnect)
             => ops'[s].pc # "creds"]_vars

C11_Witness ==
    \E s \in Slots :
        /\ last.act = "unlock"
        /\ ops[s].kind = "unlock" /\ ops[s].res = "ok" /\ ops[s].sent = {}
        /\ isUnlocked(this) /\ Len(this.accounts) > 0

\* the operations that wait for an answer of the companion tab
Exchanges == {s \in DOMAIN ops : ops[s].pc = "creds"}

\* C12 (as stated): at most one credential exchange is in flight at any
\* time, however the operations that trigger unlock are interleaved.
C12_OneExchangeInFlight == Cardinality(Exchanges) <= 1

\* C12 (amended): an exchange is opened only by the host's call itself,
\* never by a callback, and only when the call finds no stored credentials
\* or a forced reconnect; so calls that do not overlap have at most one
\* exchange in flight, and a second one is in flight only when the host
\* made a call while another operation was still waiting for its tab.
C12_OneExchangePerCall ==
    [][\A s \in DOMAIN ops :
          /\ (ops[s].pc # "creds" /\ ops'[s].pc = "creds")
             => /\ ops[s].pc = "idle"
                /\ \/ ~_hasCreds(this)
                   \/ this.forceReconnect
                   \/ last'.act = "getFirstPage"
                /\ Exchanges' = Exchanges \cup {s}
          /\ (\A t \in DOMAIN ops : ops[t].pc = "idle")
             => Cardinality(Exchanges') <= 1]_vars

C12_Witness ==
    /\ Cardinality(Exchanges) = 1
    /\ \E s \in DOMAIN ops : ops[s].pc = "connect" /\ ops[s].kind = "unlock"

\* C13: an operation settles whatever becomes of the credential exchange:
\* when the companion tab cannot be opened, when it is closed, and when
\* its payload lacks the device ID or the password, the operation that
\* waited for it is rejected (its promise is settled, not left pending).
C13_CredentialOutcomeSettles ==
    \A s \in Slots :
        (last.act = "credsResponse"
           /\ last.in \in {"cannotOpen", "closed", "invalid"}
           /\ ops[s].kind # "none")
        => ops[s].pc = "done"

\* C14: when unlock resolves, the keyring has a session and a wallet
\* identity; when it resolved through a connect, that identity is the one
\* the signer reported after the connect; and when the signer reports no
\* active wallet, unlock is rejected with NoActiveWalletError.
C14_UnlockedMeansConnected ==
    \A s \in Slots :
        (ops[s].kind = "unlock" /\ ops[s].pc = "done")
        => /\ ops[s].res = "ok"
              => this.sdkSession # <<>> /\ this.walletUID # NULL
           /\ (ops[s].res = "ok" /\ last.act = "connectResponse")
              => /\ this.walletUID = getActiveWallet(this)
                 /\ this.walletUID = deviceWallet
           /\ (last.act = "connectResponse" /\ last.in = "ok" /\ deviceWallet = NULL)
              => ops[s].res = "NoActiveWalletError"

C14_Witness ==
    \E s \in Slots :
        /\ last.act = "connectResponse"
        /\ ops[s].kind = "unlock" /\ ops[s].res = "ok"
        /\ this.walletUID = "w2"

\* the step just taken was a step of the operation itself
OwnStep == last.act \notin {"none", "forgetDevice", "swapWallet", "setHdPath"}

\* C15: the page cursor is never negative (getPreviousPage at page 0 leaves
\* it at 0), and a page call asks the device for PER_PAGE addresses from
\* the derivation index page * PER_PAGE on (the page as the call set it): in one request of PER_PAGE, or,
\* under a template whose variable index is not the last, in requests of
\* one address for the indices that follow one another.
C15_CursorAndPageRequest ==
    /\ this.page >= 0
    /\ (last.act = "getPreviousPage" /\ last.page = 0) => this.page = 0
    /\ \A s \in Slots :
          (last.act \in {"getFirstPage", "getNextPage", "getPreviousPage"}
             /\ ops[s].pc \notin {"done", "hung"})
          => ops[s].start = PER_PAGE * this.page
    /\ \A s \in Slots :
          (OwnStep /\ ops[s].kind = "getPage" /\ ops[s].pc = "addr")
          => /\ ops[s].n + Len(ops[s].acc) = PER_PAGE
             /\ ops[s].reqN =
                   (IF _hdPathHasInternalVarIdx(this.hdPath) THEN 1 ELSE PER_PAGE)
             /\ ops[s].reqPath =
                   _getHDPathIndices(this.hdPath, ops[s].start + Len(ops[s].acc))

C15_Witness ==
    \E s \in Slots :
        /\ last.act = "getPreviousPage" /\ last.page = 0
        /\ ops[s].kind = "getPage" /\ ops[s].pc = "addr"
        /\ ops[s].reqN = PER_PAGE

\* the derivation indices of the page that starts at index start
PageIndices(start) == {start + k : k \in 0..(PER_PAGE - 1)}

\* C16: getFirstPage asks for the page at index 0 and a getNextPage that
\* follows it for the page at index PER_PAGE; a page request that succeeds
\* returns PER_PAGE entries {address, index} whose indices are start,
\* start + 1, ..., each address being the one the device derived at the
\* path of its index, which is none of the indices and paths of the page
\* that follows: the two pages have no index and no address in common.
C16_PagesAreConsecutive ==
    /\ \A s \in Slots :
          (last.act = "getFirstPage" /\ ops[s].kind = "getPage") => ops[s].start = 0
    /\ \A s \in Slots :
          (last.act = "getNextPage" /\ ops[s].kind = "getPage" /\ last.page = 0)
          => ops[s].start = PER_PAGE
    /\ \A s \in Slots :
          (ops[s].kind = "getPage" /\ ops[s].pc = "done" /\ ops[s].res = "ok")
          => /\ Len(ops[s].out) = PER_PAGE
             /\ \A j \in 1..Len(ops[s].out) :
                   /\ ops[s].out[j].index = ops[s].start + (j - 1)
                   /\ ops[s].out[j].address.w \in Wallets
                   /\ ~ops[s].out[j].address.lc
                   /\ ops[s].out[j].address.p =
                         _getHDPathIndices(this.hdPath, ops[s].out[j].index)
                   /\ (~_hdPathHasInternalVarIdx(this.hdPath))
                      => ops[s].out[j].address.w = deviceWallet
                   /\ \A i \in PageIndices(ops[s].start + PER_PAGE) :
                         /\ ops[s].out[j].index # i
                         /\ ops[s].out[j].address.p # _getHDPathIndices(this.hdPath, i)

C16_Witness ==
    \E s \in Slots :
        /\ last.act = "addressesResponse" /\ this.page = 1
        /\ ops[s].kind = "getPage" /\ ops[s].res = "ok"
        /\ ops[s].out[1].index = PER_PAGE

\* C17, for page requests: a page request that fails leaves the account
\* cache, the stored credentials and the page cursor as the call found
\* them, and the wallet identity too unless the identity the signer reports
\* was adopted; the other exception is a forget-device.
C17_FailureLeavesStateIntact ==
    \A s \in Slots :
        (ops[s].kind = "getPage" /\ ops[s].pc = "done"
           /\ ops[s].res \notin {"ok", "AccountsClearedError"})
        => \/ Forgotten(this)
           \/ /\ Cache(this) = <<ops[s].before.accounts, ops[s].before.accountIndices,
                                  ops[s].before.accountOpts>>
              /\ this.creds = ops[s].before.creds
              /\ this.page = ops[s].before.page
              /\ this.walletUID \in {ops[s].before.walletUID, syncedUID(this)}

\* C18 (as stated): signTransaction of a type 2 transaction that lacks
\* maxFeePerGas or maxPriorityFeePerGas, for a cached address, fails with
\* MissingFeeFieldsError before any device request: no connect, getAddresses
\* or sign request is sent during the call.
C18_FeeCheckBeforeAnyRequest ==
    \A s \in Slots :
        (ops[s].kind = "signTransaction" /\ feeFieldsMissing(ops[s].tx)
           /\ firstMatch(this, ops[s].address) # 0)
        => /\ ops[s].sent = {}
           /\ ops[s].pc = "done" => ops[s].res = "MissingFeeFieldsError"

\* C18 (amended): such a call never sends a sign or getAddresses request
\* and never succeeds.  The fee fields are tested after the signer was
\* resolved: called on an unlocked keyring the call fails in the call
\* itself with MissingFeeFieldsError and nothing sent; called on a locked
\* one it sends the connect request first and fails with
\* MissingFeeFieldsError when the connect has succeeded.
C18_FeeCheckBeforeSignRequest ==
    \A s \in Slots :
        (ops[s].kind = "signTransaction" /\ feeFieldsMissing(ops[s].tx))
        => /\ ops[s].sent \subseteq {"connect"}
           /\ ops[s].pc # "sign"
           /\ ops[s].res # "ok"
           /\ (ops[s].pc = "done" /\ last.act = "signTransaction"
                 /\ firstMatch(this, ops[s].address) # 0)
              => ops[s].res = "MissingFeeFieldsError" /\ ops[s].sent = {}
           /\ (ops[s].pc = "done" /\ last.act = "connectResponse"
                 /\ last.in = "ok" /\ deviceWallet # NULL
                 /\ firstMatch(this, ops[s].address) # 0)
              => ops[s].res = "MissingFeeFieldsError" /\ ops[s].sent = {"connect"}

C18_Witness ==
    \E s \in Slots :
        /\ last.act = "signTransaction"
        /\ ops[s].tx.type = 2 /\ ops[s].tx.maxFeePerGas = ABSENT
        /\ ops[s].res = "MissingFeeFieldsError" /\ ops[s].sent = {}

\* the firmware version [fix, minor, major] is lower than 0.11.0
BelowTypedTx(fw) ==
    \/ fw[3] < TypedTxFirmware[3]
    \/ fw[3] = TypedTxFirmware[3] /\ fw[2] < TypedTxFirmware[2]
    \/ fw[3] = TypedTxFirmware[3] /\ fw[2] = TypedTxFirmware[2]
         /\ fw[1] < TypedTxFirmware[1]

\* C19: for a type 1 or type 2 transaction and a firmware below 0.11.0 the
\* sign request has the legacy shape (no type, accessList, maxFeePerGas or
\* maxPriorityFeePerGas; for type 2 its gasPrice is the transaction's
\* maxFeePerGas) and is tagged as reverted, and the transaction returned
\* has the legacy type and that gasPrice; for a firmware at or above
\* 0.11.0 the request and the result keep the type and its fields.
C19_LegacyDowngrade ==
    \A s \in Slots :
        LET o == ops[s]
            price == IF o.tx.type = 2 THEN o.tx.maxFeePerGas ELSE o.tx.gasPrice
        IN  (o.kind = "signTransaction" /\ o.tx.type \in {1, 2}
               /\ (o.pc = "sign" \/ (o.pc = "done" /\ o.res = "ok")))
            => IF BelowTypedTx(o.fwVersion)
               THEN /\ o.req.type = ABSENT /\ o.req.accessList = ABSENT
                    /\ o.req.maxFeePerGas = ABSENT
                    /\ o.req.maxPriorityFeePerGas = ABSENT
                    /\ o.req.gasPrice = price
                    /\ o.req.revertToLegacy
                    /\ o.pc = "done"
                       => o.out[1].type = "0" /\ o.out[1].gasPrice = price
               ELSE /\ o.req.type = ToString(o.tx.type)
                    /\ o.req.accessList # ABSENT
                    /\ o.req.maxFeePerGas = o.tx.maxFeePerGas
                    /\ o.req.maxPriorityFeePerGas = o.tx.maxPriorityFeePerGas
                    /\ o.req.gasPrice = o.tx.gasPrice
                    /\ ~o.req.revertToLegacy
                    /\ o.pc = "done"
                       => /\ o.out[1].type = ToString(o.tx.type)
                          /\ o.out[1].gasPrice = o.tx.gasPrice

C19_Witness ==
    \E s \in Slots :
        /\ ops[s].kind = "signTransaction" /\ ops[s].res = "ok"
        /\ ops[s].tx.type = 2 /\ ops[s].fwVersion = <<7, 0, 0>>
        /\ ops[s].out[1].type = "0"
        /\ ops[s].out[1].gasPrice = "maxFeePerGas"

\* the signer session can name an active wallet
ActiveWalletKnown == this.sdkSession # <<>> /\ deviceWallet # NULL

\* C20: when the device has answered a sign request of signTransaction
\* without an error, the wallet identity is synchronized first and the call
\* fails with StaleWalletError if there is no active wallet; it fails with
\* MissingSignatureError if the signature or one of r, s, v is missing; and
\* it returns the signed transaction only when the active wallet was
\* confirmed and all three components are there.
C20_SignResultChecks ==
    \A s \in Slots :
        (ops[s].kind = "signTransaction" /\ ops[s].pc = "done"
           /\ last.act = "signResponse" /\ last.in # "err")
        => /\ ~ActiveWalletKnown => ops[s].res = "StaleWalletError"
           /\ (ActiveWalletKnown /\ last.in \in {"noSig", "noR", "noS", "noV"})
              => ops[s].res = "MissingSignatureError"
           /\ ops[s].res = "ok"
              <=> (ActiveWalletKnown /\ last.in = "ok")
           /\ ops[s].res = "ok" => this.walletUID = deviceWallet

C20_Witness ==
    \E s \in Slots :
        /\ last.act = "signResponse" /\ last.in = "ok"
        /\ deviceWallet = NULL
        /\ ops[s].kind = "signTransaction" /\ ops[s].res = "StaleWalletError"

\* the step just taken was a call or a callback of a signing operation
\* before its sign request was answered
SignerStep ==
    last.act \in {"signTransaction", "signMessage", "credsResponse", "connectResponse"}

\* C21: a signing call for an address that matches no cached record,
\* whatever the case of its letters, sends no sign request and, once the
\* lookup is reached, fails with SignerNotPresentError (at once on an
\* unlocked keyring); an address that matches is looked up without regard
\* to case: a cached address and its lower-case form find the same record,
\* and the sign request is for the path of that record.
C21_SignerLookup ==
    /\ \A j \in 1..Len(this.accounts) :
          /\ lastMatch(this, this.accounts[j]) # 0
          /\ lastMatch(this, toLowerCase(this.accounts[j]))
                = lastMatch(this, this.accounts[j])
    /\ \A s \in Slots :
          (ops[s].kind \in SignKinds /\ SignerStep)
          => IF lastMatch(this, ops[s].address) = 0
             THEN /\ ops[s].pc # "sign"
                  /\ "sign" \notin ops[s].sent
                  /\ ops[s].res # "ok"
                  /\ (ops[s].pc = "done" /\ isUnlocked(this)
                        /\ last.act # "credsResponse"
                        /\ ops[s].res \notin {"DeviceError", "NoActiveWalletError"})
                     => ops[s].res = "SignerNotPresentError"
             ELSE /\ ops[s].res # "SignerNotPresentError"
                  /\ ops[s].pc = "sign"
                     => LET j == lastMatch(this, ops[s].address)
                        IN  ops[s].reqPath =
                              _getHDPathIndices(this.accountOpts[j].hdPath,
                                                signerIndex(this, j))

C21_Witness ==
    \E s \in Slots :
        /\ ops[s].kind = "signMessage" /\ last.act = "signMessage"
        /\ ops[s].res = "SignerNotPresentError" /\ ops[s].sent = {}
        /\ Len(this.accounts) > 0

\* what a segment stands for: its literal value or the insertion index,
\* with the hardened offset when it ends with an apostrophe
SegmentEntry(seg, insertIdx) ==
    <<IF isHardened(seg) THEN 1 ELSE 0,
      IF hasX(seg) THEN insertIdx ELSE segNumber(seg)>>

\* one entry per segment, and the insertion index at the end when no
\* segment holds the placeholder
Resolved(template, insertIdx) ==
    LET entries == [k \in 1..Len(template) |-> SegmentEntry(template[k], insertIdx)]
    IN  IF \E k \in 1..Len(template) : hasX(template[k]) THEN entries
        ELSE Append(entries, <<0, insertIdx>>)

\* C22: _getHDPathIndices returns one entry per segment of the template (a
\* literal's value or, for a placeholder, the insertion index, plus the
\* hardened offset when the segment is hardened), with the insertion index
\* appended when no segment holds the placeholder; it throws
\* InvalidPathError exactly when that sequence has more than 5 entries,
\* so what it returns has at most 5.
C22_PathResolution ==
    \A s \in Slots :
        (ops[s].kind = "_getHDPathIndices" /\ ops[s].pc = "done")
        => LET expected == Resolved(this.hdPath, ops[s].start)
           IN  /\ Len(expected) > 5 => ops[s].res = "InvalidPathError"
               /\ Len(expected) <= 5
                  => ops[s].res = "ok" /\ ops[s].out = expected
               /\ ops[s].res = "ok" => Len(ops[s].out) <= 5

C22_Witness ==
    \E s \in Slots :
        /\ ops[s].kind = "_getHDPathIndices" /\ ops[s].res = "InvalidPathError"
        /\ Len(this.hdPath) = 5 /\ ~usedX(this.hdPath)

\* the positions of the template's segments that hold the placeholder
PlaceholderAt(template) == {k \in 1..Len(template) : hasX(template[k])}

\* C23: _hdPathHasInternalVarIdx is true exactly when the placeholder is in
\* a segment other than the last; a template whose only placeholder is its
\* last segment, or that has none, gives false.
C23_InternalVariableIndex ==
    \A s \in Slots :
        (ops[s].kind = "_hdPathHasInternalVarIdx" /\ ops[s].pc = "done")
        => /\ ops[s].res = "ok"
           /\ ops[s].out[1] <=> (PlaceholderAt(this.hdPath) \ {Len(this.hdPath)} # {})
           /\ PlaceholderAt(this.hdPath) \subseteq {Len(this.hdPath)}
              => ~ops[s].out[1]

C23_Witness ==
    \E s \in Slots :
        /\ ops[s].kind = "_hdPathHasInternalVarIdx" /\ ops[s].pc = "done"
        /\ PlaceholderAt(this.hdPath) = {Len(this.hdPath)}
        /\ Len(this.hdPath) = 5
        /\ ~ops[s].out[1]

KeyCalls == {s \in OverlapSlots : ops[s].kind = "_genSessionKey" /\ ops[s].pc = "done"}

\* the password, device ID and application name a derivation was made of
KeyInputs(o) == <<o.before.creds.password, o.before.creds.deviceID, o.before.appName>>

\* the fields in which two credential sets differ
Differing(a, b) == {k \in 1..3 : a[k] # b[k]}

\* C24 as stated: any two credential sets that differ give different keys.
C24_DistinctCredentialsDistinctKeys ==
    \A s \in KeyCalls, t \in KeyCalls :
        (ops[s].res = "ok" /\ ops[t].res = "ok"
            /\ KeyInputs(ops[s]) # KeyInputs(ops[t]))
        => ops[s].out # ops[t].out

\* C24: _genSessionKey fails with MissingCredentialsError when the password,
\* the device ID or the application name is missing; the same three values
\* always give the same key, the digest of password, deviceID, appName
\* joined in that order; two credential sets that differ in exactly one of
\* the three give different keys.
C24_SessionKey ==
    \A s \in KeyCalls :
        LET in == KeyInputs(ops[s])
        IN  /\ (\E k \in 1..3 : in[k] = NULL) <=> ops[s].res = "MissingCredentialsError"
            /\ ops[s].res \in {"ok", "MissingCredentialsError"}
            /\ ops[s].res = "ok"
               => ops[s].out = <<sha256(Bytes(in[1]) \o Bytes(in[2]) \o Bytes(in[3]))>>
            /\ \A t \in KeyCalls :
                  (ops[s].res = "ok" /\ ops[t].res = "ok")
                  => /\ in = KeyInputs(ops[t]) => ops[s].out = ops[t].out
                     /\ Cardinality(Differing(in, KeyInputs(ops[t]))) = 1
                        => ops[s].out # ops[t].out

C24_Witness ==
    /\ KeyCalls = OverlapSlots
    /\ \A s \in KeyCalls : ops[s].res = "ok"
    /\ Differing(KeyInputs(ops[1]), KeyInputs(ops[2])) = {3}
    /\ ops[1].out # ops[2].out

\* the fields of an adapter that serialize writes out
Persisted(K) ==
    [creds |-> K.creds, hdPath |-> K.hdPath, accounts |-> K.accounts,
     accountIndices |-> K.accountIndices, accountOpts |-> K.accountOpts,
     walletUID |-> K.walletUID, appName |-> K.appName, network |-> K.network,
     page |-> K.page]

\* the same fields of a serialized state
PersistedIn(state) ==
    [creds |-> state.creds[1], hdPath |-> state.hdPath[1], accounts |-> state.accounts[1],
     accountIndices |-> state.accountIndices[1], accountOpts |-> state.accountOpts[1],
     walletUID |-> state.walletUID, appName |-> state.appName, network |-> state.network,
     page |-> state.page]

\* C25 as stated: a serialized state handed to deserialize, of a new adapter
\* or of one that holds other values, gives an adapter equal to it.
C25_RoundTripAnyAdapter ==
    (Held /\ last.act \in {"constructor", "deserialize"})
    => Persisted(this) = PersistedIn(ops[2].out[1])

\* C25: a serialized state handed to the constructor of a new adapter gives
\* an adapter whose credentials, template, accounts, indices, metadata,
\* wallet UID, application name, network and page are those serialized;
\* handed to deserialize of an adapter in use, it sets the credentials, the
\* template, the accounts, their indices and metadata, and each of wallet
\* UID, application name, network and page that is not null or 0 in it.
C25_RoundTrip ==
    Held => LET state == PersistedIn(ops[2].out[1])
                now == Persisted(this)
            IN  /\ last.act = "serialize" => state = now
                /\ last.act = "constructor" => now = state
                /\ last.act = "deserialize"
                   => /\ now.creds = state.creds /\ now.hdPath = state.hdPath
                      /\ now.accounts = state.accounts
                      /\ now.accountIndices = state.accountIndices
                      /\ now.accountOpts = state.accountOpts
                      /\ state.walletUID # NULL => now.walletUID = state.walletUID
                      /\ state.appName # NULL => now.appName = state.appName
                      /\ state.network # NULL => now.network = state.network
                      /\ state.page # 0 => now.page = state.page

C25_Witness ==
    /\ Held
    /\ last.act = "constructor"
    /\ Len(this.accounts) = 2
    /\ this.page = 1
    /\ this.network = "rinkeby"
    /\ this.hdPath = LEDGER_LIVE_PATH

\* the positions of the cache whose record belongs to a wallet and template
RecordsOf(walletUID, hdPath) ==
    {j \in 1..Len(this.accounts) :
        metadataAt(this, j) = <<[walletUID |-> walletUID, hdPath |-> hdPath]>>}

\* C26: the records of one wallet and template stand in the cache in
\* increasing derivation-index order, each index one more than the one
\* before it.
C26_NoGapDerivationOrder ==
    ~legacyCache(this)
    => \A w \in Wallets, t \in Templates :
          \A j \in RecordsOf(w, t), k \in RecordsOf(w, t) :
              (j < k /\ \A m \in RecordsOf(w, t) : ~(j < m /\ m < k))
              => this.accountIndices[k] = this.accountIndices[j] + 1

\* the operations whose last step left a request with the device
Requesting(kind) == {s \in Slots : OwnStep /\ ops[s].pc = kind}

\* C27: a getAddresses or sign request is sent only with a session and a
\* wallet UID, a connect request only with a session and a device ID; an
\* operation refused for want of them has sent no such request.
C27_RequestsNeedSession ==
    /\ \A s \in Requesting("addr") \cup Requesting("sign") :
          this.sdkSession # <<>> /\ this.walletUID # NULL
    /\ \A s \in Requesting("connect") :
          this.sdkSession # <<>> /\ this.creds.deviceID # NULL
    /\ \A s \in Slots :
          /\ ops[s].res = "NoConnectionError" => ops[s].sent \cap {"getAddresses", "sign"} = {}
          /\ ops[s].res = "MissingCredentialsError" => ops[s].sent = {}

\* a page request that connected first and whose per-index fetch has just
\* sent its second request
C27_Witness ==
    \E s \in Requesting("addr") :
        /\ ops[s].recurse /\ Len(ops[s].acc) = 1
        /\ last.act = "addressesResponse"
        /\ "connect" \in ops[s].sent
        /\ this.accounts = <<>>

\* the operations that wait for the device's answer to a request
Outstanding == {s \in DOMAIN ops : ops[s].pc \in {"connect", "addr", "sign"}}

FetchCount(o) == IF o.kind = "getPage" THEN PER_PAGE ELSE o.count
FetchStart(o) == IF o.kind = "getPage" THEN o.start ELSE this.unlockedAccount

Fetching == {s \in Slots : ops[s].pc = "addr"}

\* C29: with a variable index inside the template the fetch sends one
\* request of one address per index, from the start index upwards, and
\* hands on the answers joined in that order after `count` of them; with
\* any other template it sends one request for `count` addresses from the
\* start index; the cache is the same after every step of the fetch.
C29_FetchRequests ==
    /\ \A s \in Fetching :
          LET o == ops[s]
              got == Len(o.acc)
          IN  /\ o.recurse = _hdPathHasInternalVarIdx(this.hdPath)
              /\ o.reqPath = _getHDPathIndices(this.hdPath, o.i)
              /\ o.recurse
                 => /\ o.reqN = 1
                    /\ o.i = FetchStart(o) + got
                    /\ o.n = FetchCount(o) - got /\ o.n >= 1
                    /\ \A j \in 1..got :
                          o.acc[j].p = _getHDPathIndices(this.hdPath, FetchStart(o) + j - 1)
              /\ ~o.recurse
                 => /\ o.reqN = FetchCount(o) /\ o.i = FetchStart(o) /\ got = 0
                    /\ last.act # "addressesResponse"
              /\ OwnStep => Len(this.accounts) = last.pre
    /\ \A s \in Slots :
          (last.act = "addressesResponse" /\ ops[s].kind = "getPage" /\ ops[s].pc = "done")
          => /\ this.accounts = ops[s].before.accounts
             /\ ops[s].res = "ok"
                => /\ Len(ops[s].out) = PER_PAGE
                   /\ \A j \in 1..PER_PAGE :
                         ops[s].out[j].address.p =
                            _getHDPathIndices(this.hdPath, ops[s].start + j - 1)

\* the second of two requests made for addAccounts(2)
C29_Witness ==
    \E s \in Fetching :
        /\ ops[s].kind = "addAccounts" /\ ops[s].count = 2
        /\ ops[s].recurse /\ Len(ops[s].acc) = 1 /\ ops[s].n = 1
        /\ last.act = "addressesResponse"

\* the operation whose getAddresses request was just answered with no
\* address
EmptyAnswer == {s \in Slots : last.act = "addressesResponse" /\ last.in = "empty"}

\* C30 as stated: an answer without addresses fails the fetch with
\* NoAddressesReturnedError.
C30_EmptyAnswerIsNoAddresses ==
    \A s \in EmptyAnswer : ops[s].res = "NoAddressesReturnedError"

\* C30: an answer without addresses fails the fetch, with
\* NoActiveWalletError when the session is gone by then and with
\* NoAddressesReturnedError otherwise; no further request is sent, the
\* addresses gathered so far are handed to nobody, and the cache has the
\* records it had before.
C30_EmptyAnswerFailsFetch ==
    \A s \in EmptyAnswer :
        /\ ops[s].pc = "done"
        /\ ops[s].res = IF this.sdkSession = <<>> THEN "NoActiveWalletError"
                        ELSE "NoAddressesReturnedError"
        /\ ops[s].out = <<>> /\ ops[s].acc = <<>>
        /\ Len(this.accounts) = last.pre
        /\ Len(this.accountIndices) = Len(this.accounts)

\* the per-index fetch of addAccounts(2) ended by an empty answer
C30_Witness ==
    \E s \in EmptyAnswer :
        /\ ops[s].kind = "addAccounts" /\ ops[s].count = 2
        /\ ops[s].res = "NoAddressesReturnedError"
        /\ _hdPathHasInternalVarIdx(this.hdPath)
        /\ Len(this.accounts) = 1

\* the device has just answered a request without an error
Answered ==
    /\ last.act \in {"connectResponse", "addressesResponse", "signResponse"}
    /\ last.in # "err"

\* C31: after every answer without an error, to connect, getAddresses or
\* sign, the stored wallet UID is the one the session reports; when the
\* session reports no wallet the operation has failed.
C31_WalletIdentityFollowsSigner ==
    (Answered /\ this.sdkSession # <<>>)
    => /\ getActiveWallet(this) = deviceWallet
       /\ getActiveWallet(this) # NULL => this.walletUID = getActiveWallet(this)
       /\ getActiveWallet(this) = NULL
          => \A s \in Slots :
                /\ ops[s].pc = "done"
                /\ ops[s].res \in {"NoActiveWalletError", "StaleWalletError"}

\* a sign request answered by a wallet other than the one that was known
C31_Witness ==
    /\ Answered
    /\ last.act = "signResponse"
    /\ this.walletUID = "w2"
    /\ Len(this.accounts) > 0
    /\ this.accountOpts[1].walletUID = "w1"

Connecting == {s \in Slots : ops[s].pc = "connect"}

\* C32: the session has the connect timeout from the moment connect is
\* called until its callback runs, and the request timeout at every other
\* time, whether connect succeeded or failed.
C32_ConnectTimeoutIsTransient ==
    this.sdkSession # <<>>
    => /\ Connecting = {} => this.sdkSession[1].timeout = SDK_TIMEOUT
       /\ Connecting # {} => this.sdkSession[1].timeout = CONNECT_TIMEOUT

C32_Witness ==
    /\ last.act = "connectResponse" /\ last.in = "err"
    /\ this.sdkSession # <<>>
    /\ this.sdkSession[1].timeout = SDK_TIMEOUT
    /\ \A s \in Slots : ops[s].res = "DeviceError"

\* the handshakes that opened a tab and whose promise is no longer pending
SettledHandshakes ==
    {s \in Slots : ops[s].watch.browser # "none" /\ ops[s].pc \notin {"idle", "creds"}}

\* C33: once the handshake has settled, by credentials received or by the
\* tab found closed, its poll is cancelled and its message listener is
\* unregistered.
C33_WatchCleanedUp ==
    \A s \in SettledHandshakes : ~ops[s].watch.poll /\ ~ops[s].watch.listener

Signing == {s \in Slots : ops[s].kind \in SignKinds /\ ops[s].pc = "sign"}

\* C34: the path of a sign request is the one the account was added at,
\* resolved from the template and index stored with the account, whatever
\* the adapter's current template and start index are.
C34_SignerPathIsTheAccountsOwn ==
    \A s \in Signing :
        /\ ops[s].reqPath = ops[s].address.p
        /\ OwnStep
           => \E j \in 1..Len(this.accounts) :
                 /\ toLowerCase(this.accounts[j]) = toLowerCase(ops[s].address)
                 /\ ops[s].reqPath = _getHDPathIndices(this.accountOpts[j].hdPath,
                                                       this.accountIndices[j])

\* a sign request for an account added under the standard template at
\* index 0, sent when the template is Ledger Live and the start index 1
C34_Witness ==
    \E s \in Signing :
        /\ OwnStep
        /\ this.hdPath = LEDGER_LIVE_PATH /\ this.unlockedAccount = 1
        /\ ops[s].reqPath = _getHDPathIndices(STANDARD_HD_PATH, 0)

\* the three lists of the cache have one length, and the address at every
\* position is the one its template and index resolve to
Aligned(K) ==
    /\ Len(K.accountIndices) = Len(K.accounts)
    /\ Len(K.accountOpts) = Len(K.accounts)
    /\ \A k \in 1..Len(K.accounts) :
          K.accounts[k].p = _getHDPathIndices(K.accountOpts[k].hdPath, K.accountIndices[k])

\* In the latest version no step of addAccounts, removeAccount, forgetDevice,
\* paging or reconnect takes the address list, the index list and the
\* metadata list out of step.
ListsStayAligned == [][Aligned(this) => Aligned(this')]_vars

\* C35 as stated, for the address list and the index list: in every
\* reachable state the two have the same length.
C35_ParallelListsSameLength == Len(this.accountIndices) = Len(this.accounts)

\* C36: every record of the cache carries the index and the template its
\* address was requested at and the identity of the wallet that derived it,
\* also when setAccountToUnlock or setHdPath is called while the fetch of
\* addAccounts is in flight.
C36_RecordsCarryRequestedPath ==
    ~legacyCache(this)
    => \A k \in 1..Len(this.accounts) :
        /\ this.accounts[k].p = _getHDPathIndices(this.accountOpts[k].hdPath,
                                                  this.accountIndices[k])
        /\ this.accountOpts[k].walletUID = this.accounts[k].w

\* the sign requests sent by the step just taken
JustIssued ==
    {s \in Signing : last.act \in {"signTransaction", "signMessage",
                                    "credsResponse", "connectResponse"}}

\* C37: when a sign request is issued, the record whose template and index
\* give its path was cached under the adapter's current wallet identity.
C37_SignerRecordOfActiveWallet ==
    \A s \in JustIssued :
        LET accountIdx == lastMatch(this, ops[s].address)
        IN  /\ accountIdx \in 1..Len(this.accountOpts)
            /\ this.accountOpts[accountIdx].walletUID = this.walletUID

\* C38: the session a connect request is sent on was constructed with the
\* key and the endpoint of the credentials the adapter stores now.
C38_SessionOfStoredCredentials ==
    (Connecting # {} /\ OwnStep)
    => /\ this.sdkSession # <<>>
       /\ this.sdkSession[1].privKey = _genSessionKey(this)
       /\ this.sdkSession[1].baseUrl = NewSession(this).baseUrl

\* C39: when the callback of a connect, getAddresses or sign request fires
\* after forgetDevice, the operation rejects and the adapter keeps the reset
\* values.
C39_ForgetDeviceIsFinal ==
    [][\A s \in Slots :
          (/\ ops[s].pc \in {"connect", "addr", "sign"}
           /\ Forgotten(this)
           /\ ops'[s].pc # ops[s].pc)
          => /\ ops'[s].pc = "done"
             /\ ops'[s].res # "ok"
             /\ Forgotten(this')]_vars

\* the same for the callbacks of getAddresses and sign requests alone
ForgetDeviceIsFinalAfterConnect ==
    [][\A s \in Slots :
          (/\ ops[s].pc \in {"addr", "sign"}
           /\ Forgotten(this)
           /\ ops'[s].pc # ops[s].pc)
          => /\ ops'[s].pc = "done"
             /\ ops'[s].res # "ok"
             /\ Forgotten(this')]_vars

\* the set of the keys of a cache
KeySet(cache) == {cache[j].key : j \in 1..Len(cache)}

\* the last call was saveDefToCache for a transaction with call data and a key
SavedWithKey ==
    /\ last.act = "saveDefToCache"
    /\ ~falsy(last.tx.data) /\ length(last.tx.data) > 0
    /\ generateDefKey(last.tx.data, last.tx.to) # undefined

\* C40: the definition cache never holds more than MAX_CACHE_SIZE entries;
\* saveDefToCache on a full cache removes the oldest key and no other;
\* saveDefToCache for a transaction with empty data or without a key changes
\* nothing; and right after saveDefToCache with a key getCachedDef gives the
\* definition saved.
C40_DefinitionCacheBounded ==
    /\ Len(this) <= MAX_CACHE_SIZE
    /\ Cardinality(KeySet(this)) = Len(this)
    /\ (last.act = "saveDefToCache" /\ ~SavedWithKey) => this = last.pre
    /\ SavedWithKey
       => LET key == generateDefKey(last.tx.data, last.tx.to)
          IN  /\ getCachedDef(last.tx, this) = last.def
              /\ Len(last.pre) >= MAX_CACHE_SIZE
                 => KeySet(this) = (KeySet(last.pre) \ {last.pre[1].key}) \cup {key}
              /\ Len(last.pre) < MAX_CACHE_SIZE
                 => KeySet(this) = KeySet(last.pre) \cup {key}
              /\ \A k \in KeySet(this) \ {key} : get(this, k) = get(last.pre, k)

C40_Witness ==
    /\ SavedWithKey
    /\ Len(last.pre) = MAX_CACHE_SIZE
    /\ generateDefKey(last.tx.data, last.tx.to) \notin KeySet(last.pre)
    /\ Len(this) = MAX_CACHE_SIZE
    /\ last.pre[1].key \notin KeySet(this)
    /\ this[MAX_CACHE_SIZE].def = last.def

====
